---- MODULE Spec2Model ----
(***************************************************************************)
(* BLAKE3-Turbo-JS: the one-shot hash functions (blake3, blake3Fallback,   *)
(* hash), the streaming hashers (Hasher, Blake3) and the module-level      *)
(* buffers they reuse.                                                     *)
(*                                                                         *)
(* A 32-bit word is a pair <<lo, hi>> of 16-bit halves.  A chaining value  *)
(* is either eight words or the tuple that records the compress call that  *)
(* produced it: two chaining values are then equal exactly when they come  *)
(* from the same tree of compress calls.  run computes the words of such a *)
(* tree, one round of one compress call at a time.                         *)
(***************************************************************************)
EXTENDS Integers, Sequences, FiniteSets, TLC

VARIABLES
    run,               \* the compress calls of a returned digest, being computed
    wasmSupported,     \* part_001: let wasmSupported
    globalWorkBuffer,  \* part_001: const globalWorkBuffer = new Uint32Array(24)
    globalCvStack,     \* part_001: let globalCvStack
    calls,             \* the calls made so far, each with what it returned
    trace,             \* the compress calls of the last call
    B3_IV,             \* v3.js: const B3_IV, the words it holds
    wasmSimdEnabled,   \* vt1.js: let wasmSimdEnabled
    cvStack,           \* vt1.js: let cvStack, as [len, s]
    blockWords,        \* vt1.js: const blockWords = new Uint32Array(16)
    hashers            \* the Hasher and Blake3 instances created so far

vars == <<run, wasmSupported, globalWorkBuffer, globalCvStack, calls, trace, B3_IV,
          wasmSimdEnabled, cvStack, blockWords, hashers>>

(***************************************************************************)
(* Constants of the algorithm.                                             *)
(***************************************************************************)
BLOCK_LEN == 64
CHUNK_LEN == 1024
CHUNK_START == 1
CHUNK_END == 2
PARENT == 4
ROOT == 8
KEYED_HASH == 16
DERIVE_KEY_CONTEXT == 32
DERIVE_KEY_MATERIAL == 64

IV == << <<58983, 27145>>, <<44677, 47975>>, <<62322, 15470>>, <<62778, 42319>>,
         <<21119, 20750>>, <<26764, 39685>>, <<55723, 8067>>, <<52505, 23520>> >>

ZeroWord == <<0, 0>>
ZeroCV == << ZeroWord, ZeroWord, ZeroWord, ZeroWord,
            ZeroWord, ZeroWord, ZeroWord, ZeroWord >>
ZeroBlock == ZeroCV \o ZeroCV

\* flags | f for flag sets that are unions of distinct bits
HasFlag(d, f) == (d \div f) % 2 = 1
OrFlag(d, f) == IF HasFlag(d, f) THEN d ELSE d + f

(***************************************************************************)
(* Inputs.  A Uint8Array is [len, byteOffset, bufLen, start]: len bytes at  *)
(* byteOffset of an ArrayBuffer of bufLen bytes, holding the bytes         *)
(* start .. start + len - 1 of the test pattern data[i] = i % 251.         *)
(***************************************************************************)
generateTestInput(i) == i % 251

\* array[i]; an index outside the array reads as undefined, and the bit
\* operators of the readers turn undefined into 0
ByteAt(input, i) ==
    IF i >= 0 /\ i < input.len THEN generateTestInput(input.start + i) ELSE 0

LEWord(input, o) ==
    << ByteAt(input, o) + 256 * ByteAt(input, o + 1),
       ByteAt(input, o + 2) + 256 * ByteAt(input, o + 3) >>

\* array[offset] | array[offset+1] << 8 | ... for 16 words; a byte past the
\* end of the array reads as undefined, which the bit operators turn into 0
readLittleEndianWordsFull(input, offset) ==
    [i \in 1..16 |-> LEWord(input, offset + 4 * (i - 1))] \o <<>>

\* one word of the partial reader, the zero-fill left out: a word past the
\* input keeps what the work buffer held
PartialWord_NoZeroFill(words, input, o, length, i) ==
    IF o + 3 < length THEN LEWord(input, o)
    ELSE IF o < length
         THEN << ByteAt(input, o) + 256 * (IF o + 1 < length THEN ByteAt(input, o + 1) ELSE 0),
                 (IF o + 2 < length THEN ByteAt(input, o + 2) ELSE 0) >>
         ELSE words[i]

\* one word of the partial reader: zero-filled, then a whole word while
\* offset + 3 < length, then the 1..3 tail bytes or-ed into the zeroed word
PartialWord(words, input, o, length, i) ==
    IF o + 3 < length THEN LEWord(input, o)
    ELSE IF o < length
         THEN << ByteAt(input, o) + 256 * (IF o + 1 < length THEN ByteAt(input, o + 1) ELSE 0),
                 (IF o + 2 < length THEN ByteAt(input, o + 2) ELSE 0) >>
         ELSE ZeroWord

readLittleEndianWordsPartial(words, input, offset, length) ==
    [i \in 1..16 |-> PartialWord(words, input, offset + 4 * (i - 1), length, i)] \o <<>>

\* inputWords[wordIndex + i]: the view has byteLength >> 2 elements and an
\* element past its end reads as undefined, which compress turns into 0
InputWordsAt(input, wordIndex) ==
    [i \in 1..16 |->
        IF wordIndex + (i - 1) < input.len \div 4
        THEN LEWord(input, 4 * (wordIndex + (i - 1)))
        ELSE ZeroWord] \o <<>>

(***************************************************************************)
(* compress.  The result is the record of the call.                       *)
(***************************************************************************)
compress(cv, m, counter, blockLen, flags) ==
    <<"compress", cv, m, counter, blockLen, flags>>

\* the message of a parent node: two chaining values lying side by side
ParentBlock(l, r) == <<l, r>>

\* Output bytes are runs [w, from, to]: the bytes from .. to - 1 of the
\* little-endian bytes of the words w that a compress call produced.
OutBytes(w, from, to) == IF from < to THEN << [w |-> w, from |-> from, to |-> to] >> ELSE <<>>

\* the 32 bytes of the eight words of a chaining value
DigestBytes(cv) == OutBytes(cv, 0, 32)

\* a followed by b, two adjacent runs of the same words joined
Cat(a, b) ==
    IF a = <<>> THEN b
    ELSE IF b = <<>> THEN a
    ELSE IF a[Len(a)].w = b[1].w /\ a[Len(a)].to = b[1].from
         THEN SubSeq(a, 1, Len(a) - 1)
              \o << [w |-> b[1].w, from |-> a[Len(a)].from, to |-> b[1].to] >>
              \o SubSeq(b, 2, Len(b))
         ELSE a \o b

\* bytes.slice(0, n) of output bytes that start a run at byte 0
RECURSIVE SliceBytes(_, _)
SliceBytes(a, n) ==
    IF a = <<>> \/ n <= 0 THEN <<>>
    ELSE IF a[1].to - a[1].from >= n
         THEN OutBytes(a[1].w, a[1].from, a[1].from + n)
         ELSE << a[1] >> \o SliceBytes(Tail(a), n - (a[1].to - a[1].from))

\* nothing is being computed
NoRun == [live |-> FALSE, frames |-> <<>>, focus |-> <<>>, work |-> <<>>]

\* ctz32 that counts one trailing zero at most
ctz32_AtMostOne(n) == IF n % 2 = 0 THEN 1 ELSE 0

RECURSIVE ctz32(_)
ctz32(n) == IF n = 0 THEN 32 ELSE IF n % 2 = 1 THEN 0 ELSE 1 + ctz32(n \div 2)

(***************************************************************************)
(* src/unnamed/part_001, second variant: blake3 with the 4-way WASM SIMD   *)
(* stage and blake3Fallback without it.  One call threads the record       *)
(*   [cv, block]        workBuffer[0..7] and workBuffer[8..23]             *)
(*   [stack, pos]       cvStack and cvStackPos / 8                         *)
(*   [offset, chunkCounter, log, thrown]                                   *)
(* log lists the compress calls as [stage, off, t, b, d].                  *)
(***************************************************************************)
StackGet(s, p) == IF p >= 0 /\ p < Len(s) THEN s[p + 1] ELSE ZeroCV

StackSet(s, p, cv) ==
    IF p < 0 THEN s
    ELSE IF p < Len(s) THEN [s EXCEPT ![p + 1] = cv]
    ELSE IF p = Len(s) THEN Append(s, cv)
    ELSE Append(s \o [i \in 1..(p - Len(s)) |-> ZeroCV], cv)

LogEntry(stage, off, t, b, d) == [stage |-> stage, off |-> off, t |-> t, b |-> b, d |-> d]

\* cvStackPos -= 16; compress(IV, 0, cvStack, cvStackPos, cvStack, cvStackPos, ..); cvStackPos += 8
Merge(st, stage) ==
    [st EXCEPT !.stack = StackSet(@, st.pos - 2,
                            compress(IV, ParentBlock(StackGet(st.stack, st.pos - 2),
                                                     StackGet(st.stack, st.pos - 1)),
                                     0, BLOCK_LEN, PARENT)),
               !.pos = @ - 1,
               !.log = Append(@, LogEntry(stage, -1, 0, BLOCK_LEN, PARENT))]

\* for (m = 0; m < mergeCount; m++) { merge }
RECURSIVE MergeLoop(_, _, _)
MergeLoop(st, mergeCount, stage) ==
    IF mergeCount = 0 THEN st ELSE MergeLoop(Merge(st, stage), mergeCount - 1, stage)

\* the message of the block at st.offset: the direct view or the byte reader
BlockWords(st, input, direct) ==
    IF direct THEN InputWordsAt(input, st.offset \div 4)
    ELSE readLittleEndianWordsFull(input, st.offset)

\* compress(workBuffer, CV_OFFSET, message, .., workBuffer, CV_OFFSET, true,
\*          chunkCounter, BLOCK_LEN, flags), offset += 64
BlockStep(st, m, d, direct, stage) ==
    [st EXCEPT !.cv = compress(st.cv, m, st.chunkCounter, BLOCK_LEN, d),
               !.block = IF direct THEN @ ELSE m,
               !.offset = @ + 64,
               !.log = Append(@, LogEntry(stage, st.offset, st.chunkCounter, BLOCK_LEN, d))]

\* for (i = 0; i < 16; ++i, offset += 64): the blocks of a whole chunk
RECURSIVE ChunkBlocks(_, _, _, _)
ChunkBlocks(st, input, direct, i) ==
    IF i = 16 \/ st.offset < 0 THEN st
    ELSE ChunkBlocks(BlockStep(st, BlockWords(st, input, direct),
                               IF i = 0 THEN CHUNK_START ELSE IF i = 15 THEN CHUNK_END ELSE 0,
                               direct, "full"),
                     input, direct, i + 1)

\* workBuffer.set(IV, CV_OFFSET)
ResetCv(st) == [st EXCEPT !.cv = IV]

\* cvStack.set(workBuffer.subarray(0, 8), cvStackPos); cvStackPos += 8; chunkCounter += 1
PushChunk(st) ==
    [st EXCEPT !.stack = StackSet(@, st.pos, st.cv), !.pos = @ + 1, !.chunkCounter = @ + 1]

MergeAfterPush(st) == MergeLoop(st, ctz32(st.chunkCounter), "merge")

\* stage 1b: for (; offset < take; ) { whole chunk; push; merge ctz32 times }
RECURSIVE FullChunks(_, _, _, _)
FullChunks(st, input, direct, take) ==
    IF ~(st.offset < take) THEN st
    ELSE FullChunks(MergeAfterPush(PushChunk(ChunkBlocks(ResetCv(st), input, direct, 0))),
                    input, direct, take)

\* stage 2: the full blocks of the last chunk except its last block
RECURSIVE TailBlocks(_, _, _, _, _)
TailBlocks(st, input, direct, i, fullBlocks) ==
    IF ~(i < fullBlocks) \/ st.offset < 0 THEN st
    ELSE TailBlocks(BlockStep(st, BlockWords(st, input, direct),
                              IF i = 0 THEN CHUNK_START ELSE 0, direct, "tail"),
                    input, direct, i + 1, fullBlocks)

\* while (cvStackPos > 16) { merge }
RECURSIVE FinalMerges(_)
FinalMerges(st) == IF ~(st.pos > 2) THEN st ELSE FinalMerges(Merge(st, "final"))

\* the only chunk: compress(.., lastBlockLen, flags | ROOT | CHUNK_END | start) into workBuffer
RootChunk(st, m, lastBlockLen, start) ==
    [st EXCEPT !.block = m,
               !.cv = compress(st.cv, m, st.chunkCounter, lastBlockLen, ROOT + CHUNK_END + start),
               !.log = Append(@, LogEntry("last", st.offset, st.chunkCounter, lastBlockLen,
                                          ROOT + CHUNK_END + start))]

\* the last of several chunks: compress(.., lastBlockLen, flags | CHUNK_END | start) onto the stack
PushLast(st, m, lastBlockLen, start) ==
    [st EXCEPT !.block = m,
               !.stack = StackSet(@, st.pos, compress(st.cv, m, st.chunkCounter, lastBlockLen,
                                                      CHUNK_END + start)),
               !.pos = @ + 1,
               !.log = Append(@, LogEntry("last", st.offset, st.chunkCounter, lastBlockLen,
                                          CHUNK_END + start))]

\* cvStackPos -= 16; compress(IV, 0, cvStack, cvStackPos, workBuffer, CV_OFFSET, .., PARENT | ROOT)
RootMerge(st) ==
    [st EXCEPT !.pos = @ - 2,
               !.cv = compress(IV, ParentBlock(StackGet(st.stack, st.pos - 2),
                                               StackGet(st.stack, st.pos - 1)),
                               0, BLOCK_LEN, PARENT + ROOT),
               !.log = Append(@, LogEntry("root", -1, 0, BLOCK_LEN, PARENT + ROOT))]

LastBlockWith(st, m, lastBlockLen, start) ==
    IF st.pos = 0 THEN RootChunk(st, m, lastBlockLen, start)
    ELSE RootMerge(FinalMerges(PushLast(st, m, lastBlockLen, start)))

\* stage 3: the last block, then the merges up to the root
LastBlock(st, input, length, fullBlocks) ==
    LastBlockWith(st, readLittleEndianWordsPartial(st.block, input, st.offset, length),
                  length - st.offset, IF fullBlocks = 0 THEN CHUNK_START ELSE 0)

\* what a call starts from: workBuffer.set(IV, CV_OFFSET), cvStackPos = 0
CallInit(work, stack) ==
    [cv |-> IV, block |-> work.block, stack |-> stack, pos |-> 0,
     offset |-> 0, chunkCounter |-> 0, log |-> <<>>, thrown |-> FALSE]

\* take = length - length % 1024, less one chunk when that is the whole input
Take(length) ==
    IF length % CHUNK_LEN = 0 /\ length > 0 THEN length - CHUNK_LEN
    ELSE length - (length % CHUNK_LEN)

\* fullBlocks = remainingBytes > 0 ? ((remainingBytes - 1) / 64) | 0 : 0
FullBlocks(remainingBytes) == IF remainingBytes > 0 THEN (remainingBytes - 1) \div 64 ELSE 0

\* stages 1b, 2 and 3, the same text in blake3 and in blake3Fallback
ScalarStages(st, input) ==
    LastBlock(TailBlocks(ResetCv(FullChunks(st, input, input.byteOffset % 4 = 0, Take(input.len))),
                         input, input.byteOffset % 4 = 0, 0,
                         FullBlocks(input.len - Take(input.len))),
              input, input.len, FullBlocks(input.len - Take(input.len)))

blake3Fallback(input, work, stack) == ScalarStages(CallInit(work, stack), input)

\* writeTransposedBlockFast: new Uint32Array(input.buffer) on the aligned
\* path is a RangeError when the buffer's byteLength is no multiple of 4
TransposeThrows(input) == input.byteOffset % 4 = 0 /\ input.bufLen % 4 # 0

\* one block of the four lanes: writeTransposedBlockFast, writeCVAndParams,
\* wasmCompress4x, readResults
LaneStep(cvs, input, baseOffset, baseChunkCounter, block, f) ==
    [c \in 1..4 |->
        compress(cvs[c],
                 readLittleEndianWordsFull(input, baseOffset + CHUNK_LEN * (c - 1) + 64 * block),
                 baseChunkCounter + (c - 1), BLOCK_LEN, f)] \o <<>>

LaneLog(baseOffset, baseChunkCounter, block, f) ==
    [c \in 1..4 |-> LogEntry("simd", baseOffset + CHUNK_LEN * (c - 1) + 64 * block,
                             baseChunkCounter + (c - 1), BLOCK_LEN, f)]

BlockFlags(block) ==
    (IF block = 0 THEN CHUNK_START ELSE 0) + (IF block = 15 THEN CHUNK_END ELSE 0)

RECURSIVE SimdBlocks(_, _, _, _, _, _)
SimdBlocks(cvs, log, input, baseOffset, baseChunkCounter, block) ==
    IF block = 16 \/ Len(cvs) # 4 THEN [cvs |-> cvs, log |-> log]
    ELSE SimdBlocks(LaneStep(cvs, input, baseOffset, baseChunkCounter, block, BlockFlags(block)),
                    log \o LaneLog(baseOffset, baseChunkCounter, block, BlockFlags(block)),
                    input, baseOffset, baseChunkCounter, block + 1)

process4ChunksSimd(log, input, baseOffset, baseChunkCounter) ==
    SimdBlocks(<<IV, IV, IV, IV>>, log, input, baseOffset, baseChunkCounter, 0)

\* cvStack.set(cvResults[c], cvStackPos); cvStackPos += 8
PushCv(st, cv) == [st EXCEPT !.stack = StackSet(@, st.pos, cv), !.pos = @ + 1]

\* for (c = 0; c < 4; c++) { push cvResults[c]; merge ctz32(chunkCounter + c + 1) times }
RECURSIVE PushGroup(_, _, _)
PushGroup(st, cvResults, c) ==
    IF c = 4 \/ st.pos < 0 THEN st
    ELSE PushGroup(MergeLoop(PushCv(st, cvResults[c + 1]), ctz32(st.chunkCounter + c + 1), "merge"),
                   cvResults, c + 1)

\* one pass of the SIMD loop, then offset += 4096, chunkCounter += 4
GroupStep(st, r) ==
    [PushGroup([st EXCEPT !.log = r.log], r.cvs, 0)
        EXCEPT !.offset = @ + CHUNK_LEN * 4, !.chunkCounter = @ + 4]

\* stage 1: for (; offset < simdEnd; offset += 4096, chunkCounter += 4)
RECURSIVE SimdGroups(_, _, _)
SimdGroups(st, input, simdEnd) ==
    IF ~(st.offset < simdEnd) THEN st
    ELSE IF TransposeThrows(input) THEN [st EXCEPT !.thrown = TRUE]
    ELSE SimdGroups(GroupStep(st, process4ChunksSimd(st.log, input, st.offset, st.chunkCounter)),
                    input, simdEnd)

AfterSimd(st, input) == IF st.thrown THEN st ELSE ScalarStages(st, input)

blake3(input, work, stack) ==
    IF ~wasmSupported \/ input.len < CHUNK_LEN * 4
    THEN blake3Fallback(input, work, stack)
    ELSE AfterSimd(SimdGroups(CallInit(work, stack), input,
                              (input.len \div (CHUNK_LEN * 4)) * CHUNK_LEN * 4),
                   input)

\* return new Uint8Array(workBuffer.buffer, 0, 32), or the exception
Returned(st) == [thrown |-> st.thrown, out |-> IF st.thrown THEN <<>> ELSE DigestBytes(st.cv)]

(***************************************************************************)
(* src/js/vt1.js: the one-shot hash.  One call threads the record          *)
(*   [stack, cap, pos]   cvStack, its length / 8 and stackPos / 8          *)
(*   [offset, chunkCounter, blockWords, log, thrown, out]                  *)
(* The chunk in progress lives in place on the stack at pos.               *)
(***************************************************************************)
RECURSIVE CeilLog2(_)
CeilLog2(n) == IF n <= 1 THEN 0 ELSE 1 + CeilLog2((n + 1) \div 2)

\* maxDepth without the two spare places
MaxDepth_NoSpare(totalLen) == CeilLog2(((totalLen + CHUNK_LEN - 1) \div CHUNK_LEN) + 1) - 1

\* maxDepth = Math.ceil(Math.log2(numChunks + 1)) + 2
MaxDepth(totalLen) == CeilLog2(((totalLen + CHUNK_LEN - 1) \div CHUNK_LEN) + 1) + 2

\* a fresh Uint32Array when the kept one is missing or shorter
getCvStack(kept, size) == IF kept.len < size THEN [len |-> size, s |-> <<>>] ELSE kept

HashInit(kept, words) ==
    [stack |-> kept.s, cap |-> kept.len, pos |-> 0, offset |-> 0, chunkCounter |-> 0,
     blockWords |-> words, log |-> <<>>, thrown |-> FALSE, out |-> ZeroCV]

\* new Uint32Array(input.buffer, input.byteOffset + inputOffset) on the
\* aligned path: a RangeError when the rest of the buffer is no multiple of 4
SimdViewThrows(input, inputOffset) ==
    /\ (input.byteOffset + inputOffset) % 4 = 0
    /\ (input.bufLen - (input.byteOffset + inputOffset)) % 4 # 0

\* the transposed message, the four counters and the one wasmCompress4x call
processChunks4xSimd(log, input, inputOffset, baseChunkCounter) ==
    SimdBlocks(<<IV, IV, IV, IV>>, log, input, inputOffset, baseChunkCounter, 0)

\* stack.set(src, stackPos): a RangeError past the end of the typed array
StackPut(hs, cv) ==
    IF hs.pos + 1 > hs.cap THEN [hs EXCEPT !.thrown = TRUE]
    ELSE [hs EXCEPT !.stack = StackSet(@, hs.pos, cv)]

\* while ((tc & 1) === 0 && stackPos > 8) { if (isLastChunk && stackPos === 16) break; merge; tc >>= 1 }
RECURSIVE SimdMerges(_, _, _)
SimdMerges(hs, tc, isLastChunk) ==
    IF ~(tc % 2 = 0 /\ hs.pos > 1) \/ (isLastChunk /\ hs.pos = 2) THEN hs
    ELSE SimdMerges(Merge(hs, "merge"), tc \div 2, isLastChunk)

PushSimdCv(hs) == [hs EXCEPT !.pos = @ + 1, !.chunkCounter = @ + 1]

SimdMergesOf(hs, isLastChunk) == SimdMerges(hs, hs.chunkCounter, isLastChunk)

\* for (i = 0; i < 4; i++) { stack.set(cvs[i], stackPos); stackPos += 8; chunkCounter++; merges }
PushAndMerge(hs, isLastChunk) ==
    IF hs.thrown THEN hs ELSE SimdMergesOf(PushSimdCv(hs), isLastChunk)

RECURSIVE HashPushGroup(_, _, _, _)
HashPushGroup(hs, cvs, i, lastGroup) ==
    IF i = 4 \/ hs.thrown THEN hs
    ELSE HashPushGroup(PushAndMerge(StackPut(hs, cvs[i + 1]), lastGroup /\ i = 3),
                       cvs, i + 1, lastGroup)

HashGroupStep(hs, r, lastGroup) ==
    [HashPushGroup([hs EXCEPT !.log = r.log], r.cvs, 0, lastGroup)
        EXCEPT !.offset = @ + 4 * CHUNK_LEN]

\* while (offset + 4 * CHUNK_LEN <= totalLen) { .. }
RECURSIVE HashSimdLoop(_, _)
HashSimdLoop(hs, input) ==
    IF ~(hs.offset + 4 * CHUNK_LEN <= input.len) \/ hs.thrown THEN hs
    ELSE IF SimdViewThrows(input, hs.offset) THEN [hs EXCEPT !.thrown = TRUE]
    ELSE HashSimdLoop(HashGroupStep(hs, processChunks4xSimd(hs.log, input, hs.offset, hs.chunkCounter),
                                    hs.offset + 4 * CHUNK_LEN >= input.len),
                      input)

Min(a, b) == IF a < b THEN a ELSE b

\* HashBlockFlags with ROOT on the last block of the last chunk of any input
HashBlockFlags_RootOnLastChunk(block, numBlocks, isLastChunk, chunkCounter) ==
    (IF block = 0 THEN CHUNK_START ELSE 0)
    + (IF block = numBlocks - 1 THEN CHUNK_END ELSE 0)
    + (IF block = numBlocks - 1 /\ isLastChunk THEN ROOT ELSE 0)

\* blockFlags of block number block of a chunk of numBlocks blocks
HashBlockFlags(block, numBlocks, isLastChunk, chunkCounter) ==
    (IF block = 0 THEN CHUNK_START ELSE 0)
    + (IF block = numBlocks - 1 THEN CHUNK_END ELSE 0)
    + (IF block = numBlocks - 1 /\ isLastChunk /\ chunkCounter = 0 THEN ROOT ELSE 0)

\* compress(stack, stackPos, m, .., stack, stackPos, true, chunkCounter, blockLen, blockFlags)
HashCompress(hs, m, blockStart, blockLen, d, direct) ==
    [hs EXCEPT !.stack = StackSet(@, hs.pos, compress(StackGet(hs.stack, hs.pos), m,
                                                      hs.chunkCounter, blockLen, d)),
               !.blockWords = IF direct THEN @ ELSE m,
               !.log = Append(@, LogEntry("block", blockStart, hs.chunkCounter, blockLen, d))]

\* blockWords.fill(0); for (i = 0; i < blockLen; i++) blockWords[i >> 2] |= input[blockStart + i] << ..
BlockByte(input, blockStart, blockLen, j) ==
    IF j < blockLen THEN ByteAt(input, blockStart + j) ELSE 0

fillBlockWords(input, blockStart, blockLen) ==
    [i \in 1..16 |->
        << BlockByte(input, blockStart, blockLen, 4 * i - 4)
             + 256 * BlockByte(input, blockStart, blockLen, 4 * i - 3),
           BlockByte(input, blockStart, blockLen, 4 * i - 2)
             + 256 * BlockByte(input, blockStart, blockLen, 4 * i - 1) >>] \o <<>>

\* the direct view for a whole block of an aligned input, else blockWords
HashBlock(hs, input, blockStart, blockLen, d) ==
    IF blockLen = BLOCK_LEN /\ input.byteOffset % 4 = 0 /\ blockStart % 4 = 0
    THEN HashCompress(hs, InputWordsAt(input, blockStart \div 4), blockStart, blockLen, d, TRUE)
    ELSE HashCompress(hs, fillBlockWords(input, blockStart, blockLen),
                      blockStart, blockLen, d, FALSE)

\* for (block = 0; block < numBlocks; block++) { .. }
RECURSIVE HashBlocks(_, _, _, _, _)
HashBlocks(hs, input, chunkEnd, block, numBlocks) ==
    IF ~(block < numBlocks) \/ hs.thrown THEN hs
    ELSE HashBlocks(HashBlock(hs, input, hs.offset + block * BLOCK_LEN,
                              Min(hs.offset + block * BLOCK_LEN + BLOCK_LEN, chunkEnd)
                                  - (hs.offset + block * BLOCK_LEN),
                              HashBlockFlags(block, numBlocks, chunkEnd = input.len, hs.chunkCounter)),
                    input, chunkEnd, block + 1, numBlocks)

\* while ((totalChunks & 1) === 0) { merge; totalChunks >>= 1 }
RECURSIVE ChunkMerges(_, _)
ChunkMerges(hs, totalChunks) ==
    IF totalChunks % 2 # 0 THEN hs
    ELSE ChunkMerges(Merge(hs, "merge"), totalChunks \div 2)

\* stackPos += 8; chunkCounter++; offset = chunkEnd; the merges unless this is the last chunk
AfterChunk(hs, chunkEnd, isLastChunk) ==
    IF isLastChunk
    THEN [hs EXCEPT !.pos = @ + 1, !.chunkCounter = @ + 1, !.offset = chunkEnd]
    ELSE ChunkMerges([hs EXCEPT !.pos = @ + 1, !.chunkCounter = @ + 1, !.offset = chunkEnd],
                     hs.chunkCounter + 1)

HashChunk(hs, input, chunkEnd) ==
    IF hs.thrown THEN hs
    ELSE AfterChunk(HashBlocks(hs, input, chunkEnd, 0,
                               (chunkEnd - hs.offset + BLOCK_LEN - 1) \div BLOCK_LEN),
                    chunkEnd, chunkEnd = input.len)

\* while (offset < totalLen) { stack.set(IV, stackPos); the blocks; .. }
RECURSIVE HashChunks(_, _)
HashChunks(hs, input) ==
    IF ~(hs.offset < input.len) \/ hs.thrown THEN hs
    ELSE HashChunks(HashChunk(StackPut(hs, IV), input, Min(hs.offset + CHUNK_LEN, input.len)),
                    input)

\* the merge at stackPos === 0 goes to out with PARENT | ROOT
HashRootMerge(hs) ==
    [hs EXCEPT !.pos = 0,
               !.out = compress(IV, ParentBlock(StackGet(hs.stack, 0), StackGet(hs.stack, 1)),
                                0, BLOCK_LEN, PARENT + ROOT),
               !.log = Append(@, LogEntry("root", -1, 0, BLOCK_LEN, PARENT + ROOT))]

\* while (stackPos > 8) { stackPos -= 16; isRoot = stackPos === 0; .. }
RECURSIVE HashFinalMerges(_)
HashFinalMerges(hs) ==
    IF ~(hs.pos > 1) THEN hs
    ELSE IF hs.pos = 2 THEN HashRootMerge(hs)
    ELSE HashFinalMerges(Merge(hs, "final"))

HashFinal(hs) ==
    IF hs.thrown THEN hs
    ELSE IF hs.chunkCounter = 1 THEN [hs EXCEPT !.out = StackGet(hs.stack, 0)]
    ELSE HashFinalMerges(hs)

\* totalLen === 0: blockWords.fill(0); compress(IV, .., out, .., 0, 0, CHUNK_START | CHUNK_END | ROOT)
HashEmpty(hs) ==
    [hs EXCEPT !.blockWords = ZeroBlock,
               !.out = compress(IV, ZeroBlock, 0, 0, CHUNK_START + CHUNK_END + ROOT),
               !.log = Append(@, LogEntry("block", 0, 0, 0, CHUNK_START + CHUNK_END + ROOT))]

\* hash(input, outputLen) for outputLen <= 32, up to the value of out
hashWords(input, simd, kept, words) ==
    IF input.len = 0 THEN HashEmpty(HashInit(kept, words))
    ELSE IF simd /\ input.len >= 4 * CHUNK_LEN
    THEN HashFinal(HashChunks(HashSimdLoop(HashInit(getCvStack(kept, MaxDepth(input.len)), words),
                                           input),
                              input))
    ELSE HashFinal(HashChunks(HashInit(getCvStack(kept, MaxDepth(input.len)), words), input))

\* return wordsToBytes(out).slice(0, outputLen), or the exception
HashReturned(hs, outputLen) ==
    [thrown |-> hs.thrown,
     out |-> IF hs.thrown THEN <<>> ELSE OutBytes(hs.out, 0, outputLen)]

(***************************************************************************)
(* src/js/vt1.js: class Hasher.  An instance is the record                 *)
(*   [keyWords, baseFlags, cv, blockBuffer, blockLen, chunkLen,            *)
(*    chunkCounter, cvStack]                                               *)
(***************************************************************************)
KeyByte(i) == (7 * i + 3) % 256

\* keyToWords without its length check: the words of the first 32 bytes,
\* a missing byte read as 0
keyToWords_NoLengthCheck(keyLen) ==
    [thrown |-> FALSE,
     words |-> [i \in 1..8 |->
                  << (IF 4 * i - 4 < keyLen THEN KeyByte(4 * i - 4) ELSE 0)
                       + 256 * (IF 4 * i - 3 < keyLen THEN KeyByte(4 * i - 3) ELSE 0),
                     (IF 4 * i - 2 < keyLen THEN KeyByte(4 * i - 2) ELSE 0)
                       + 256 * (IF 4 * i - 1 < keyLen THEN KeyByte(4 * i - 1) ELSE 0) >>] \o <<>>]

\* keyToWords(key), the key being the bytes KeyByte(0 .. keyLen - 1): throws
\* unless key.length === 32, else words[i] = key[4i] | key[4i+1] << 8 | ..
keyToWords(keyLen) ==
    IF keyLen # 32 THEN [thrown |-> TRUE, words |-> <<>>]
    ELSE [thrown |-> FALSE,
          words |-> [i \in 1..8 |->
                       << KeyByte(4 * i - 4) + 256 * KeyByte(4 * i - 3),
                          KeyByte(4 * i - 2) + 256 * KeyByte(4 * i - 1) >>] \o <<>>]

\* the fields the constructor sets
NewHasher(keyWords, baseFlags) ==
    [keyWords |-> keyWords, baseFlags |-> baseFlags, cv |-> keyWords,
     blockBuffer |-> [i \in 1..64 |-> 0] \o <<>>, blockLen |-> 0, chunkLen |-> 0,
     chunkCounter |-> 0, cvStack |-> <<>>]

\* the constructor with a key, KEYED_HASH added whatever the flags
HasherWithKey_AlwaysKeyed(k, flags) ==
    IF k.thrown THEN [thrown |-> TRUE]
    ELSE [thrown |-> FALSE, h |-> NewHasher(k.words, OrFlag(flags, KEYED_HASH))]

\* the constructor with a key, KEYED_HASH never added to the flags
HasherWithKey_NoKeyedHash(k, flags) ==
    IF k.thrown THEN [thrown |-> TRUE]
    ELSE [thrown |-> FALSE, h |-> NewHasher(k.words, flags)]

\* the constructor with a key: flags | KEYED_HASH unless a derive-key flag is set
HasherWithKey(k, flags) ==
    IF k.thrown THEN [thrown |-> TRUE]
    ELSE [thrown |-> FALSE,
          h |-> NewHasher(k.words,
                          IF HasFlag(flags, DERIVE_KEY_CONTEXT) \/ HasFlag(flags, DERIVE_KEY_MATERIAL)
                          THEN flags ELSE OrFlag(flags, KEYED_HASH))]

\* new Hasher(key, flags); keyLen < 0 stands for key = null
Hasher(keyLen, flags) ==
    IF keyLen < 0 THEN [thrown |-> FALSE, h |-> NewHasher(IV, flags)]
    ELSE HasherWithKey(keyToWords(keyLen), flags)

\* createKeyedHasher(key): its own length check, then new Hasher(key)
createKeyedHasher(keyLen) ==
    IF keyLen # 32 THEN [thrown |-> TRUE] ELSE Hasher(keyLen, 0)

OrIf(d, c, f) == IF c THEN OrFlag(d, f) ELSE d

BufByte(buf, blockLen, j) == IF j < blockLen THEN buf[j + 1] ELSE 0

\* a zeroed Uint32Array(16) with the first blockLen bytes of the buffer or-ed in
BufferWords(buf, blockLen) ==
    [i \in 1..16 |->
        << BufByte(buf, blockLen, 4 * i - 4) + 256 * BufByte(buf, blockLen, 4 * i - 3),
           BufByte(buf, blockLen, 4 * i - 2) + 256 * BufByte(buf, blockLen, 4 * i - 1) >>] \o <<>>

\* _compressBlock with CHUNK_START for chunkLen < BLOCK_LEN only
Hasher_compressBlock_StartBelow(h, isLastBlock) ==
    [h EXCEPT !.cv = compress(h.cv, BufferWords(h.blockBuffer, h.blockLen), h.chunkCounter,
                              h.blockLen,
                              OrIf(OrIf(h.baseFlags, h.chunkLen < BLOCK_LEN, CHUNK_START),
                                   isLastBlock, CHUNK_END))]

\* _compressBlock with counter 0 in every chunk
Hasher_compressBlock_CounterZero(h, isLastBlock) ==
    [h EXCEPT !.cv = compress(h.cv, BufferWords(h.blockBuffer, h.blockLen), 0,
                              h.blockLen,
                              OrIf(OrIf(h.baseFlags, h.chunkLen <= BLOCK_LEN, CHUNK_START),
                                   isLastBlock, CHUNK_END))]

\* _compressBlock(isLastBlock): compress(this.cv, .., this.cv, .., chunkCounter, blockLen, flags)
Hasher_compressBlock(h, isLastBlock) ==
    [h EXCEPT !.cv = compress(h.cv, BufferWords(h.blockBuffer, h.blockLen), h.chunkCounter,
                              h.blockLen,
                              OrIf(OrIf(h.baseFlags, h.chunkLen <= BLOCK_LEN, CHUNK_START),
                                   isLastBlock, CHUNK_END))]

\* right = pop(), left = pop(), push(compress(keyWords, left || right, 0, 64, baseFlags | PARENT))
HasherMerge(h) ==
    [h EXCEPT !.cvStack =
        Append(SubSeq(@, 1, Len(@) - 2),
               compress(h.keyWords, ParentBlock(@[Len(@) - 1], @[Len(@)]), 0, BLOCK_LEN,
                        OrFlag(h.baseFlags, PARENT)))]

\* while ((tc & 1) === 0 && this.cvStack.length >= 2) { merge; tc >>= 1 }
RECURSIVE PushMerges(_, _)
PushMerges(h, tc) ==
    IF ~(tc % 2 = 0 /\ Len(h.cvStack) >= 2) THEN h ELSE PushMerges(HasherMerge(h), tc \div 2)

Hasher_pushChunkCv(h) ==
    PushMerges([h EXCEPT !.cvStack = Append(@, h.cv), !.chunkCounter = @ + 1], h.chunkCounter + 1)

Hasher_startNewChunk(h) == [h EXCEPT !.cv = h.keyWords, !.chunkLen = 0]

\* if (this.blockLen === BLOCK_LEN) { compress it; blockLen = 0; a completed chunk is pushed }
FlushFullBlock(h) ==
    IF h.blockLen # BLOCK_LEN THEN h
    ELSE IF h.chunkLen = CHUNK_LEN
    THEN Hasher_startNewChunk(Hasher_pushChunkCv([Hasher_compressBlock(h, TRUE) EXCEPT !.blockLen = 0]))
    ELSE [Hasher_compressBlock(h, FALSE) EXCEPT !.blockLen = 0]

\* blockBuffer.set(data.subarray(offset, offset + n), blockLen); blockLen += n; chunkLen += n
TakeBytes(h, data, offset, n) ==
    [h EXCEPT !.blockBuffer = [i \in 1..64 |->
                                  IF i > h.blockLen /\ i <= h.blockLen + n
                                  THEN ByteAt(data, offset + (i - 1 - h.blockLen))
                                  ELSE @[i]] \o <<>>,
              !.blockLen = @ + n,
              !.chunkLen = @ + n]

BytesToTake(h, remaining) ==
    Min(Min(BLOCK_LEN - h.blockLen, CHUNK_LEN - h.chunkLen), remaining)

\* one pass of the loop of update: flush a full block, take what fits
HasherTake(h, data, offset, n) ==
    [h |-> TakeBytes(h, data, offset, n), offset |-> offset + n]

HasherPass(h, data, offset) ==
    HasherTake(h, data, offset, BytesToTake(h, data.len - offset))

\* update(data): while (offset < len) { .. }, unrolled here in runs of 16 passes
RECURSIVE HasherPasses(_, _, _)
HasherPasses(u, data, k) ==
    IF k = 0 \/ ~(u.offset < data.len) THEN u
    ELSE HasherPasses(HasherPass(FlushFullBlock(u.h), data, u.offset), data, k - 1)

RECURSIVE HasherUpdateFrom(_, _)
HasherUpdateFrom(u, data) ==
    IF ~(u.offset < data.len) THEN u.h
    ELSE HasherUpdateFrom(HasherPasses(u, data, 16), data)

HasherUpdate(h, data) == HasherUpdateFrom([h |-> h, offset |-> 0], data)

\* the root node of an instance that was given no byte
RootEmpty(h) ==
    [cv |-> h.keyWords, block |-> ZeroBlock, len |-> 0,
     flags |-> OrFlag(OrFlag(OrFlag(h.baseFlags, CHUNK_START), CHUNK_END), ROOT)]

\* the root node of a single chunk: its last block, not compressed yet
RootOnlyChunk(h) ==
    [cv |-> h.cv, block |-> BufferWords(h.blockBuffer, h.blockLen), len |-> h.blockLen,
     flags |-> OrFlag(OrFlag(OrIf(h.baseFlags, h.chunkLen <= BLOCK_LEN, CHUNK_START),
                             CHUNK_END), ROOT)]

RootParent(h, l, r, len) ==
    [cv |-> h.keyWords, block |-> ParentBlock(l, r), len |-> len,
     flags |-> OrFlag(OrFlag(h.baseFlags, PARENT), ROOT)]

NoRoot == [len |-> -1]

\* while (this.cvStack.length > 1): the pair that empties the stack is the
\* root node, every other pair is compressed and pushed
RECURSIVE FinalizeMerges(_, _)
FinalizeMerges(h, root) ==
    IF ~(Len(h.cvStack) > 1) THEN [h |-> h, root |-> root]
    ELSE IF Len(h.cvStack) = 2
    THEN FinalizeMerges([h EXCEPT !.cvStack = <<>>],
                        RootParent(h, h.cvStack[1], h.cvStack[2], BLOCK_LEN))
    ELSE FinalizeMerges(HasherMerge(h), root)

\* if (this.cvStack.length === 1 && !rootCv): the one value alone, blockLen 32
LoneCv(f) ==
    IF Len(f.h.cvStack) = 1 /\ f.root.len < 0
    THEN [f EXCEPT !.root = RootParent(f.h, f.h.cvStack[1], ZeroCV, 32)]
    ELSE f

\* this._compressBlock(true, false); this.cvStack.push(new Uint32Array(this.cv))
PushFinalChunk(h) == [h EXCEPT !.cvStack = Append(@, h.cv)]

\* finalize up to the root node; the instance it leaves behind is h
FinalizeRoot(h) ==
    IF ~(h.chunkCounter > 0 \/ h.chunkLen > 0) THEN [h |-> h, root |-> RootEmpty(h)]
    ELSE IF h.chunkCounter = 0 THEN [h |-> h, root |-> RootOnlyChunk(h)]
    ELSE LoneCv(FinalizeMerges(PushFinalChunk(Hasher_compressBlock(h, TRUE)), NoRoot))

\* while (offset < outputLen) { compress(.., counter, ..); copy min(64, outputLen - offset); .. }
RECURSIVE RootBlocks(_, _, _, _)
RootBlocks(root, outputLen, offset, counter) ==
    IF ~(offset < outputLen) THEN <<>>
    ELSE OutBytes(compress(root.cv, root.block, counter, root.len, root.flags),
                  0, Min(64, outputLen - offset))
         \o RootBlocks(root, outputLen, offset + 64, counter + 1)

\* the bytes finalize returns from the root node
RootOutput(root, outputLen) ==
    IF outputLen <= 64
    THEN OutBytes(compress(root.cv, root.block, 0, root.len, root.flags), 0, outputLen)
    ELSE RootBlocks(root, outputLen, 0, 0)

FinalizeWith(f, outputLen) ==
    [h |-> f.h, thrown |-> f.root.len < 0,
     out |-> IF f.root.len < 0 THEN <<>> ELSE RootOutput(f.root, outputLen)]

\* finalize(outputLen): the instance afterwards and the bytes returned
HasherFinalize(h, outputLen) == FinalizeWith(FinalizeRoot(h), outputLen)

\* hash(input, outputLen): outputLen || 32, the Hasher for more than 32 bytes
HashViaHasher(f) == [thrown |-> f.thrown, out |-> f.out]

\* hashKeyed(key, input, outputLen)
HashKeyedWith(c, input, outputLen) ==
    IF c.thrown THEN [thrown |-> TRUE] ELSE HasherFinalize(HasherUpdate(c.h, input), outputLen)

hashKeyed(keyLen, input, outputLen) == HashKeyedWith(createKeyedHasher(keyLen), input, outputLen)

hash(input, outputLen, simd, kept, words) ==
    IF (IF outputLen = 0 THEN 32 ELSE outputLen) > 32
    THEN HashViaHasher(HasherFinalize(HasherUpdate(NewHasher(IV, 0), input), outputLen))
    ELSE HashReturned(hashWords(input, simd, kept, words), IF outputLen = 0 THEN 32 ELSE outputLen)

(***************************************************************************)
(* src/js/v3.js: class Blake3.  An instance is the record                  *)
(*   [buffer, pair]   the 64 bytes of buffer; after a parent merge wrote   *)
(*                    two chaining values over buffer32, pair holds them   *)
(*                    and the bytes are marked -1 until written again      *)
(*   [pos, chunkPos, chunksDone, flags, IV, state, stack]                  *)
(*   [posOut, bufferOut, chunkOut, finished, destroyed, enableXOF,         *)
(*    outputLen]                                                           *)
(* An array that the code may write in place is [ref, v]: ref names the    *)
(* array, "B3_IV" for the module's constant and "own" for a private one.    *)
(* g is the current content of the module's B3_IV.                         *)
(***************************************************************************)
ZeroBytes == [i \in 1..64 |-> 0] \o <<>>
StaleBytes == [i \in 1..64 |-> -1] \o <<>>

\* a.slice() with no copy made: the same array under a second name
slice_Alias(a) == a

\* a.slice(): a private copy
slice(a) == [ref |-> "own", v |-> a.v]

\* what reading this.IV yields
IVof(b, g) == IF b.IV.ref = "B3_IV" THEN g ELSE b.IV.v

\* fromBig(BigInt(n), le) for a counter below 2^32: the high word is 0
fromBig(n, le) == IF le THEN [h |-> n, l |-> 0] ELSE [h |-> 0, l |-> n]

\* compress(B3_SIGMA, bufPos, buf, 7, s[0..7], B3_IV[0..3], v12, v13, pos, flags)
\* with v_i ^ v_(i+8) taken: the compression of BLAKE3 when the constants
\* are the IV and the counter's high word is 0
compress7(s, g, m, v12, v13, pos, flags) ==
    IF g = IV /\ v13 = 0 THEN compress(s, m, v12, pos, flags)
    ELSE <<"compress", s, m, v12, pos, flags, v13, g>>

\* abytes(key, 32, 'key'); u32(key.slice())
u32Key(keyLen) ==
    [i \in 1..8 |-> << KeyByte(4 * i - 4) + 256 * KeyByte(4 * i - 3),
                       KeyByte(4 * i - 2) + 256 * KeyByte(4 * i - 1) >>] \o <<>>

\* the fields the constructor sets, this.state = this.IV.slice()
Blake3Fields(iv, g, flags) ==
    [buffer |-> ZeroBytes, pair |-> <<>>, pos |-> 0, chunkPos |-> 0, chunksDone |-> 0,
     flags |-> flags, IV |-> iv, state |-> IF iv.ref = "B3_IV" THEN g ELSE iv.v,
     stack |-> <<>>, posOut |-> 0, bufferOut |-> ZeroBlock, chunkOut |-> 0,
     finished |-> FALSE, destroyed |-> FALSE, enableXOF |-> TRUE, outputLen |-> 32]

\* new Blake3({key}) or, with keyLen < 0, new Blake3({})
Blake3(keyLen, g) ==
    IF keyLen < 0
    THEN [thrown |-> FALSE, b |-> Blake3Fields(slice([ref |-> "B3_IV", v |-> g]), g, 0)]
    ELSE IF keyLen # 32 THEN [thrown |-> TRUE]
    ELSE [thrown |-> FALSE,
          b |-> Blake3Fields([ref |-> "own", v |-> u32Key(keyLen)], g, KEYED_HASH)]

\* the 16 words buffer32 shows
BufferMessage(b) ==
    IF b.pair # <<>> THEN ParentBlock(b.pair[1], b.pair[2])
    ELSE BufferWords(b.buffer, 64)

\* this.buffer32.set(last, 0); this.buffer32.set(chunk, 8); this.pos = BLOCK_LEN;
\* this.b2Compress(0, this.flags | PARENT, this.buffer32, 0); chunk = this.state;
\* this.state = this.IV.slice()
RECURSIVE StackMerges(_, _, _, _, _)
StackMerges(b, g, chunk, chunks, isLast) ==
    IF ~(isLast \/ chunks % 2 = 0) \/ b.stack = <<>> THEN [b |-> b, chunk |-> chunk]
    ELSE StackMerges([b EXCEPT !.stack = SubSeq(@, 1, Len(@) - 1),
                               !.pair = <<b.stack[Len(b.stack)], chunk>>,
                               !.buffer = StaleBytes,
                               !.pos = BLOCK_LEN],
                     g,
                     compress7(IVof(b, g), g, ParentBlock(b.stack[Len(b.stack)], chunk),
                               fromBig(0, TRUE).h, fromBig(0, TRUE).l, BLOCK_LEN,
                               OrFlag(b.flags, PARENT)),
                     chunks \div 2, isLast)

\* this.chunksDone++; this.chunkPos = 0; this.stack.push(chunk)
PushMerged(r) ==
    [r.b EXCEPT !.chunksDone = @ + 1, !.chunkPos = 0, !.stack = Append(@, r.chunk)]

\* if (this.chunkPos === 16 || isLast) { chunk = this.state; this.state = this.IV.slice(); .. }
CloseChunk(b, g, isLast) ==
    IF b.chunkPos = 16 \/ isLast
    THEN PushMerged(StackMerges([b EXCEPT !.state = IVof(b, g)], g, b.state,
                                b.chunksDone + 1, isLast))
    ELSE b

\* compressBlock(buf, bufPos, isLast) up to this.chunkPos += 1, m the 16 words at buf[bufPos]
BlockCompress(b, g, m, isLast, pos) ==
    [b EXCEPT !.pos = pos,
              !.state = compress7(b.state, g, m, fromBig(b.chunksDone, TRUE).h,
                                  fromBig(b.chunksDone, TRUE).l, pos,
                                  OrIf(OrIf(b.flags, b.chunkPos = 0, CHUNK_START),
                                       b.chunkPos = 15 \/ isLast, CHUNK_END)),
              !.chunkPos = @ + 1]

compressBlock(b, g, m, isLast) ==
    [CloseChunk(BlockCompress(b, g, m, isLast, IF isLast THEN b.pos ELSE BLOCK_LEN), g, isLast)
        EXCEPT !.pos = 0]

\* if (this.pos === BLOCK_LEN) { this.compressBlock(buffer32, 0, false); this.pos = 0 }
FlushBuffer(b, g) ==
    IF b.pos = BLOCK_LEN THEN compressBlock(b, g, BufferMessage(b), FALSE) ELSE b

\* for (pos32 = 0; pos + BLOCK_LEN < len; ..) this.compressBlock(data32, pos32, false),
\* unrolled here in runs of 16 blocks
RECURSIVE FastRun(_, _, _, _)
FastRun(u, g, data, k) ==
    IF k = 0 \/ ~(u.pos + BLOCK_LEN < data.len) THEN u
    ELSE FastRun([b |-> compressBlock(u.b, g, readLittleEndianWordsFull(data, u.pos), FALSE),
                  pos |-> u.pos + BLOCK_LEN],
                 g, data, k - 1)

RECURSIVE FastBlocks(_, _, _)
FastBlocks(u, g, data) ==
    IF ~(u.pos + BLOCK_LEN < data.len) THEN u
    ELSE FastBlocks(FastRun(u, g, data, 16), g, data)

\* buffer.set(data.subarray(pos, pos + take), this.pos); this.pos += take
BufferSet(b, data, pos, take) ==
    [b EXCEPT !.buffer = [i \in 1..64 |->
                             IF i > b.pos /\ i <= b.pos + take
                             THEN ByteAt(data, pos + (i - 1 - b.pos))
                             ELSE @[i]] \o <<>>,
              !.pair = IF take > 0 THEN <<>> ELSE @,
              !.pos = @ + take]

\* one pass of the loop of update past the flush: the run of whole aligned
\* blocks that are not the last of the data, or a copy into the buffer
Blake3Take(b, g, data, pos, take) ==
    IF take = BLOCK_LEN /\ (data.byteOffset + pos) % 4 = 0 /\ pos + take < data.len
    THEN FastBlocks([b |-> b, pos |-> pos], g, data)
    ELSE [b |-> BufferSet(b, data, pos, take), pos |-> pos + take]

Blake3Pass(b, g, data, pos) ==
    Blake3Take(b, g, data, pos, Min(BLOCK_LEN - b.pos, data.len - pos))

\* for (pos = 0; pos < len; ) { .. }, unrolled here in runs of 16 passes
RECURSIVE Blake3Passes(_, _, _, _)
Blake3Passes(u, g, data, k) ==
    IF k = 0 \/ ~(u.pos < data.len) THEN u
    ELSE Blake3Passes(Blake3Pass(FlushBuffer(u.b, g), g, data, u.pos), g, data, k - 1)

RECURSIVE Blake3UpdateFrom(_, _, _)
Blake3UpdateFrom(u, g, data) ==
    IF ~(u.pos < data.len) THEN u.b
    ELSE Blake3UpdateFrom(Blake3Passes(u, g, data, 16), g, data)

\* update(data): throws on a destroyed or finished instance
Blake3Update(b, g, data) ==
    IF b.destroyed \/ b.finished THEN [thrown |-> TRUE, b |-> b]
    ELSE [thrown |-> FALSE, b |-> Blake3UpdateFrom([b |-> b, pos |-> 0], g, data)]

\* b2CompressOut with the chunk counter in the counter slot
b2CompressOut_ChunkCounter(b, g) ==
    [b EXCEPT !.bufferOut = compress7(b.state, g, BufferMessage(b), fromBig(b.chunksDone, FALSE).l,
                                      fromBig(b.chunksDone, FALSE).h, b.pos, b.flags),
              !.chunkOut = @ + 1,
              !.posOut = 0]

\* b2CompressOut(): bufferOut32 = the 16 words for counter chunkOut++, posOut = 0
b2CompressOut(b, g) ==
    [b EXCEPT !.bufferOut = compress7(b.state, g, BufferMessage(b), fromBig(b.chunkOut, FALSE).l,
                                      fromBig(b.chunkOut, FALSE).h, b.pos, b.flags),
              !.chunkOut = @ + 1,
              !.posOut = 0]

\* clean(this.buffer.subarray(this.pos))
CleanTail(b) ==
    IF b.pos >= 64 THEN b
    ELSE [b EXCEPT !.buffer = [i \in 1..64 |-> IF i > b.pos THEN 0 ELSE @[i]] \o <<>>,
                   !.pair = <<>>]

\* FinishParent with this.flags assigned before the last chunk is closed
FinishParent_FlagsFirst(b, g, flags) ==
    [compressBlock([b EXCEPT !.flags = OrFlag(OrFlag(flags, ROOT), PARENT)], g,
                   BufferMessage(b), TRUE)
        EXCEPT !.chunksDone = 0, !.pos = BLOCK_LEN]

\* the branch of finish for a non-empty stack: this.compressBlock(this.buffer32, 0, true);
\* this.chunksDone = 0; this.pos = BLOCK_LEN; this.flags = flags | ROOT | PARENT
FinishParent(b, g, flags) ==
    [compressBlock(b, g, BufferMessage(b), TRUE)
        EXCEPT !.chunksDone = 0, !.pos = BLOCK_LEN, !.flags = OrFlag(OrFlag(flags, ROOT), PARENT)]

\* the other branch with CHUNK_START left out
FinishChunk_NoStart(b) ==
    [b EXCEPT !.flags = OrFlag(OrFlag(@, ROOT), CHUNK_END)]

\* the other branch: flags | ROOT | (!this.chunkPos ? CHUNK_START : 0) | CHUNK_END
FinishChunk(b) ==
    [b EXCEPT !.flags = OrFlag(OrIf(OrFlag(@, ROOT), b.chunkPos = 0, CHUNK_START), CHUNK_END)]

FinishPadded(b, g) ==
    IF b.stack # <<>> THEN b2CompressOut(FinishParent(b, g, b.flags), g)
    ELSE b2CompressOut(FinishChunk(b), g)

\* finish() without its guard: a finished instance is finished once more
finish_Refinish(b, g) == FinishPadded(CleanTail([b EXCEPT !.finished = TRUE]), g)

\* finish(): nothing on a finished instance
finish(b, g) ==
    IF b.finished THEN b ELSE FinishPadded(CleanTail([b EXCEPT !.finished = TRUE]), g)

\* for (pos = 0, len = out.length; pos < len; ) { a new block at posOut >= 64; take; copy }
RECURSIVE WriteLoop(_, _, _, _)
RECURSIVE WriteTake(_, _, _, _)
WriteLoop(b, g, remaining, out) ==
    IF ~(remaining > 0) THEN [thrown |-> FALSE, b |-> b, out |-> out]
    ELSE IF b.posOut >= BLOCK_LEN THEN WriteTake(b2CompressOut(b, g), g, remaining, out)
    ELSE WriteTake(b, g, remaining, out)

WriteTake(b, g, remaining, out) ==
    WriteLoop([b EXCEPT !.posOut = @ + Min(BLOCK_LEN - b.posOut, remaining)], g,
              remaining - Min(BLOCK_LEN - b.posOut, remaining),
              Cat(out, OutBytes(b.bufferOut, b.posOut,
                                b.posOut + Min(BLOCK_LEN - b.posOut, remaining))))

\* writeInto(out) for an out of n bytes
writeInto(b, g, n) ==
    IF b.destroyed THEN [thrown |-> TRUE, b |-> b, out |-> <<>>]
    ELSE WriteLoop(finish(b, g), g, n, <<>>)

\* xofInto(out), xof(bytes)
xofInto(b, g, n) ==
    IF ~b.enableXOF THEN [thrown |-> TRUE, b |-> b, out |-> <<>>] ELSE writeInto(b, g, n)

\* destroy(): the arrays of the instance are zeroed in place
destroy(b) ==
    [b EXCEPT !.destroyed = TRUE, !.state = ZeroCV, !.buffer = ZeroBytes, !.pair = <<>>,
              !.IV = [ref |-> @.ref, v |-> ZeroCV], !.bufferOut = ZeroBlock,
              !.stack = [i \in 1..Len(@) |-> ZeroCV] \o <<>>]

\* what destroy() leaves in the module's B3_IV
DestroyedIV(b, g) == IF b.IV.ref = "B3_IV" THEN ZeroCV ELSE g

\* this.destroy() once writeInto has returned
Destroyed(r) == IF r.thrown THEN r ELSE [r EXCEPT !.b = destroy(@)]

\* digestInto(out) that leaves the instance open, as xofInto does
digestInto_LeftOpen(b, g, n) ==
    IF n < b.outputLen THEN [thrown |-> TRUE, b |-> b, out |-> <<>>] ELSE writeInto(b, g, n)

\* digestInto(out) without the test of out.length
digestInto_NoLengthCheck(b, g, n) ==
    IF b.finished THEN [thrown |-> TRUE, b |-> b, out |-> <<>>]
    ELSE Destroyed(writeInto([b EXCEPT !.enableXOF = FALSE], g, n))

\* digestInto(out) for an out of n bytes; digest() is digestInto of outputLen bytes
digestInto(b, g, n) ==
    IF n < b.outputLen \/ b.finished THEN [thrown |-> TRUE, b |-> b, out |-> <<>>]
    ELSE Destroyed(writeInto([b EXCEPT !.enableXOF = FALSE], g, n))

digest(b, g) == digestInto(b, g, b.outputLen)

\* blake3(msg, opts) = new Blake3(opts).update(msg).digest()
Blake3Digest(u, g) == IF u.thrown THEN [thrown |-> TRUE, out |-> <<>>] ELSE digest(u.b, g)

Blake3Absorb(c, g, msg) == IF c.thrown THEN c ELSE Blake3Update(c.b, g, msg)

blake3_v3(msg, keyLen, g) == Blake3Digest(Blake3Absorb(Blake3(keyLen, g), g, msg), g)

(***************************************************************************)
(* The calls of the exported one-shot function of part_001 (blake3, also   *)
(* exported as hash).  calls keeps, for every call, its input and the      *)
(* bytes it returned; trace is the compress calls of the last call.          *)
(***************************************************************************)
MaxCalls == 2
MaxGroups == 2
SmallLens == {0, 1, 64, 65, 1024, 1025, 2048}
GroupLens == UNION {{4096 * k, 4096 * k + 1, 4096 * k + 1024} : k \in 1..MaxGroups}

\* tight aligned, aligned in a buffer one byte longer, unaligned
Geometries == {<<0, 0>>, <<0, 1>>, <<1, 0>>}

Inputs ==
    {[len |-> n, byteOffset |-> 0, bufLen |-> n, start |-> 0] : n \in SmallLens \cup GroupLens}
    \cup {[len |-> n, byteOffset |-> g[1], bufLen |-> g[1] + n + g[2], start |-> 0] :
            n \in {65, 1025} \cup {4096 * k + d : k \in {1}, d \in {0, 1}}, g \in Geometries}

InitCalls ==
    /\ run = NoRun
    /\ wasmSupported \in BOOLEAN
    /\ globalWorkBuffer = [cv |-> ZeroCV, block |-> ZeroBlock]
    /\ globalCvStack = <<>>
    /\ calls = <<>>
    /\ trace = <<>>
    /\ B3_IV = IV
    /\ wasmSimdEnabled = FALSE
    /\ cvStack = [len |-> 0, s |-> <<>>]
    /\ blockWords = ZeroBlock
    /\ hashers = <<>>

\* what a call leaves behind in the module and hands to its caller
Return(st, input) ==
    /\ globalWorkBuffer' = [cv |-> st.cv, block |-> st.block]
    /\ globalCvStack' = st.stack
    /\ calls' = Append(calls, [input |-> input, ret |-> Returned(st)])
    /\ trace' = st.log

CallBlake3(input) ==
    /\ Len(calls) < MaxCalls
    /\ Return(blake3(input, globalWorkBuffer, globalCvStack), input)
    /\ UNCHANGED <<run, wasmSupported, B3_IV, wasmSimdEnabled, cvStack, blockWords, hashers>>

NextCalls == \E input \in Inputs : CallBlake3(input)

SpecCalls == InitCalls /\ [][NextCalls]_vars

FreshWorkBuffer == [cv |-> ZeroCV, block |-> ZeroBlock]
LastCall == calls[Len(calls)]

C9_NoDrift ==
    \A i \in 1..Len(calls) :
        calls[i].ret = Returned(blake3(calls[i].input, FreshWorkBuffer, <<>>))

\* a 1025-byte input hashed after an 8192-byte one: the stack still holds
\* the chaining values of the longer input
C9_Witness ==
    /\ Len(calls) = 2
    /\ calls[1].input.len = 8192
    /\ calls[2].input.len = 1025
    /\ Len(globalCvStack) > 2
    /\ ~calls[2].ret.thrown

(***************************************************************************)
(* The streaming instances.  hashers lists the instances asked for so      *)
(* far, each as [impl, via, keyLen, ok, obj, hist]: ok tells whether the   *)
(* constructor returned, obj is the instance, and hist lists the calls     *)
(* made on it as [op, n, thrown, out].  The bytes given to update are the  *)
(* next bytes of the test pattern, as the view x.subarray(fed, fed + n).   *)
(***************************************************************************)
MaxParts == 2
MaxReads == 2
PartLens == {0, 1, 1023, 4096}
OutLens == {32, 100}
XofLens == {33, 64}
KeyLens == {-1, 31, 32, 33}

RECURSIVE Count(_, _, _)
Count(hist, k, isUpdate) ==
    IF k = 0 THEN 0
    ELSE Count(hist, k - 1, isUpdate)
         + (IF (hist[k].op = "update") = isUpdate THEN 1 ELSE 0)

\* the bytes the first k calls gave to the instance
RECURSIVE Fed(_, _)
Fed(hist, k) ==
    IF k = 0 THEN 0
    ELSE Fed(hist, k - 1)
         + (IF hist[k].op = "update" /\ ~hist[k].thrown THEN hist[k].n ELSE 0)

PartAt(fed, n) == [len |-> n, byteOffset |-> fed, bufLen |-> fed + n, start |-> fed]

NoObject == [dead |-> TRUE]

Made(impl, via, keyLen, r) ==
    [impl |-> impl, via |-> via, keyLen |-> keyLen, ok |-> ~r.thrown,
     obj |-> IF r.thrown THEN NoObject ELSE IF impl = "Hasher" THEN r.h ELSE r.b,
     hist |-> <<>>]

Called(w, obj, op, n, thrown, out) ==
    [w EXCEPT !.obj = obj,
              !.hist = Append(@, [op |-> op, n |-> n, thrown |-> thrown, out |-> out])]

InitStream ==
    /\ run = NoRun
    /\ wasmSupported = FALSE
    /\ globalWorkBuffer = [cv |-> ZeroCV, block |-> ZeroBlock]
    /\ globalCvStack = <<>>
    /\ calls = <<>>
    /\ trace = <<>>
    /\ B3_IV = IV
    /\ wasmSimdEnabled = FALSE
    /\ cvStack = [len |-> 0, s |-> <<>>]
    /\ blockWords = ZeroBlock
    /\ hashers = <<>>

Rest == <<run, wasmSupported, globalWorkBuffer, globalCvStack, calls, trace, cvStack, blockWords>>

\* initSimd() has compiled the module: wasmSimdEnabled = true
InitSimd ==
    /\ ~wasmSimdEnabled
    /\ wasmSimdEnabled' = TRUE
    /\ UNCHANGED <<Rest, B3_IV, hashers>>

\* new Hasher(key)
NewHasherCall(keyLen, slots) ==
    /\ Len(hashers) < slots
    /\ hashers' = Append(hashers, Made("Hasher", "new", keyLen, Hasher(keyLen, 0)))
    /\ UNCHANGED <<Rest, B3_IV, wasmSimdEnabled>>

\* createKeyedHasher(key)
CreateKeyedHasherCall(keyLen, slots) ==
    /\ Len(hashers) < slots
    /\ keyLen >= 0
    /\ hashers' = Append(hashers, Made("Hasher", "createKeyedHasher", keyLen,
                                       createKeyedHasher(keyLen)))
    /\ UNCHANGED <<Rest, B3_IV, wasmSimdEnabled>>

\* new Blake3({key})
NewBlake3Call(keyLen, slots) ==
    /\ Len(hashers) < slots
    /\ hashers' = Append(hashers, Made("Blake3", "new", keyLen, Blake3(keyLen, B3_IV)))
    /\ UNCHANGED <<Rest, B3_IV, wasmSimdEnabled>>

\* hashKeyed(key, input): the instance it makes is not handed out
HashKeyedDone(keyLen, n, r) ==
    [impl |-> "Hasher", via |-> "hashKeyed", keyLen |-> keyLen, ok |-> ~r.thrown,
     obj |-> IF r.thrown THEN NoObject ELSE r.h,
     hist |-> IF r.thrown THEN <<>>
              ELSE << [op |-> "update", n |-> n, thrown |-> FALSE, out |-> <<>>],
                      [op |-> "finalize", n |-> 32, thrown |-> r.thrown, out |-> r.out] >>]

HashKeyedCall(keyLen, n, slots) ==
    /\ Len(hashers) < slots
    /\ keyLen >= 0
    /\ hashers' = Append(hashers, HashKeyedDone(keyLen, n, hashKeyed(keyLen, PartAt(0, n), 32)))
    /\ UNCHANGED <<Rest, B3_IV, wasmSimdEnabled>>

\* blake3(msg, {key}) of v3.js, likewise
Blake3Done(keyLen, n, r) ==
    [impl |-> "Blake3", via |-> "blake3", keyLen |-> keyLen, ok |-> ~r.thrown,
     obj |-> IF r.thrown THEN NoObject ELSE r.b,
     hist |-> IF r.thrown THEN <<>>
              ELSE << [op |-> "update", n |-> n, thrown |-> FALSE, out |-> <<>>],
                      [op |-> "digest", n |-> 32, thrown |-> r.thrown, out |-> r.out] >>]

Blake3Returned(keyLen, n, r) ==
    /\ hashers' = Append(hashers, Blake3Done(keyLen, n, r))
    /\ B3_IV' = IF r.thrown THEN B3_IV ELSE DestroyedIV(r.b, B3_IV)

Blake3Call(keyLen, n, slots) ==
    /\ Len(hashers) < slots
    /\ Blake3Returned(keyLen, n, blake3_v3(PartAt(0, n), keyLen, B3_IV))
    /\ UNCHANGED <<Rest, wasmSimdEnabled>>

CanCall(i, impl, isUpdate, max) ==
    /\ i \in 1..Len(hashers)
    /\ hashers[i].ok
    /\ hashers[i].via \in {"new", "createKeyedHasher"}
    /\ hashers[i].impl = impl
    /\ Count(hashers[i].hist, Len(hashers[i].hist), isUpdate) < max

\* hasher.update(part) on a Hasher
HasherUpdateCall(i, n, maxParts) ==
    /\ CanCall(i, "Hasher", TRUE, maxParts)
    /\ hashers' = [hashers EXCEPT ![i] =
                      Called(@, HasherUpdate(@.obj, PartAt(Fed(@.hist, Len(@.hist)), n)),
                             "update", n, FALSE, <<>>)]
    /\ UNCHANGED <<Rest, B3_IV, wasmSimdEnabled>>

Finalized(w, r, n) == Called(w, r.h, "finalize", n, r.thrown, r.out)

\* hasher.finalize(outputLen)
HasherFinalizeCall(i, n, maxReads) ==
    /\ CanCall(i, "Hasher", FALSE, maxReads)
    /\ hashers' = [hashers EXCEPT ![i] = Finalized(@, HasherFinalize(@.obj, n), n)]
    /\ UNCHANGED <<Rest, B3_IV, wasmSimdEnabled>>

Updated(w, r, n) == Called(w, r.b, "update", n, r.thrown, <<>>)

\* h.update(part) on a Blake3
Blake3UpdateCall(i, n, maxParts) ==
    /\ CanCall(i, "Blake3", TRUE, maxParts)
    /\ hashers' = [hashers EXCEPT ![i] =
                      Updated(@, Blake3Update(@.obj, B3_IV, PartAt(Fed(@.hist, Len(@.hist)), n)), n)]
    /\ UNCHANGED <<Rest, B3_IV, wasmSimdEnabled>>

Read(w, r, op, n) == Called(w, r.b, op, n, r.thrown, r.out)

\* h.xof(bytes)
XofCall(i, n, maxReads) ==
    /\ CanCall(i, "Blake3", FALSE, maxReads)
    /\ hashers' = [hashers EXCEPT ![i] = Read(@, xofInto(@.obj, B3_IV, n), "xof", n)]
    /\ UNCHANGED <<Rest, B3_IV, wasmSimdEnabled>>

DigestDone(i, r) ==
    /\ hashers' = [hashers EXCEPT ![i] = Read(@, r, "digest", r.b.outputLen)]
    /\ B3_IV' = IF r.thrown THEN B3_IV ELSE DestroyedIV(r.b, B3_IV)

\* h.digest()
DigestCall(i, maxReads) ==
    /\ CanCall(i, "Blake3", FALSE, maxReads)
    /\ DigestDone(i, digest(hashers[i].obj, B3_IV))
    /\ UNCHANGED <<Rest, wasmSimdEnabled>>

NextStream ==
    \/ InitSimd
    \/ \E keyLen \in KeyLens : NewHasherCall(keyLen, 1)
    \/ \E keyLen \in KeyLens : CreateKeyedHasherCall(keyLen, 1)
    \/ \E keyLen \in KeyLens : NewBlake3Call(keyLen, 1)
    \/ \E keyLen \in KeyLens, n \in PartLens : HashKeyedCall(keyLen, n, 1)
    \/ \E keyLen \in KeyLens, n \in PartLens : Blake3Call(keyLen, n, 1)
    \/ \E n \in PartLens : HasherUpdateCall(1, n, MaxParts)
    \/ \E n \in OutLens : HasherFinalizeCall(1, n, MaxReads)
    \/ \E n \in PartLens : Blake3UpdateCall(1, n, MaxParts)
    \/ \E n \in XofLens : XofCall(1, n, MaxReads)
    \/ DigestCall(1, MaxReads)

SpecStream == InitStream /\ [][NextStream]_vars

\* x as a Uint8Array that owns its buffer
WholeInput(n) == [len |-> n, byteOffset |-> 0, bufLen |-> n, start |-> 0]

RetOf(r) == [thrown |-> r.thrown, out |-> r.out]

\* the one-shot function next to the class: hash of vt1.js, blake3 of v3.js
OneShot(impl, n) ==
    IF impl = "Hasher" THEN hash(WholeInput(n), 32, wasmSimdEnabled, cvStack, blockWords)
    ELSE RetOf(blake3_v3(WholeInput(n), -1, B3_IV))

LastOf(w) == w.hist[Len(w.hist)]

\* an instance without key whose last call is its first finalize or digest
FirstDigest(w) ==
    /\ w.ok /\ w.keyLen < 0 /\ w.via = "new" /\ Len(w.hist) > 0
    /\ LastOf(w).op \in {"finalize", "digest"}
    /\ LastOf(w).n = 32
    /\ \A k \in 1..(Len(w.hist) - 1) : w.hist[k].op = "update"

\* C1: a hasher given the parts of x through update and then finalized
\* returns exactly the bytes the one-shot hash(x) returns
C1_StreamingEqualsOneShot ==
    \A i \in 1..Len(hashers) :
        FirstDigest(hashers[i]) =>
            RetOf(LastOf(hashers[i])) = OneShot(hashers[i].impl, Fed(hashers[i].hist, Len(hashers[i].hist)))

\* C4: an update on a hasher on which finalize (digest, xof) was called
\* raises an error
C4_UpdateAfterFinalizeThrows ==
    \A i \in 1..Len(hashers) : \A k \in 1..Len(hashers[i].hist) :
        (/\ hashers[i].hist[k].op = "update"
         /\ \E j \in 1..(k - 1) : hashers[i].hist[j].op # "update") => hashers[i].hist[k].thrown

\* the instance after the updates among the first k calls, made again
RECURSIVE Absorbed(_, _, _)
Absorbed(w, k, g) ==
    IF k = 0 THEN Blake3(w.keyLen, g).b
    ELSE IF w.hist[k].op = "update" /\ ~w.hist[k].thrown
    THEN Blake3Update(Absorbed(w, k - 1, g), g, PartAt(Fed(w.hist, k - 1), w.hist[k].n)).b
    ELSE Absorbed(w, k - 1, g)

\* the reads among the calls from k on, one after the other
RECURSIVE ReadBytes(_, _)
ReadBytes(hist, k) ==
    IF k > Len(hist) THEN <<>>
    ELSE IF hist[k].op = "update" THEN ReadBytes(hist, k + 1)
    ELSE Cat(hist[k].out, ReadBytes(hist, k + 1))

RECURSIVE ReadLen(_, _)
ReadLen(hist, k) ==
    IF k > Len(hist) THEN 0
    ELSE (IF hist[k].op = "update" THEN 0 ELSE hist[k].n) + ReadLen(hist, k + 1)

\* a Blake3 that was read by xof only, every read having returned
XofReads(w) ==
    /\ w.ok /\ w.impl = "Blake3" /\ w.via = "new"
    /\ \E k \in 1..Len(w.hist) : w.hist[k].op = "xof"
    /\ \A k \in 1..Len(w.hist) : w.hist[k].op \in {"update", "xof"}
    /\ \A k \in 1..Len(w.hist) : w.hist[k].op = "xof" => ~w.hist[k].thrown

\* C6: the reads of a finalized hasher, put end to end, are the bytes that
\* one read of their total length returns
C6_XofReadsConcatenate ==
    \A i \in 1..Len(hashers) :
        XofReads(hashers[i]) =>
            ReadBytes(hashers[i].hist, 1)
              = xofInto(Absorbed(hashers[i], Len(hashers[i].hist), B3_IV), B3_IV,
                        ReadLen(hashers[i].hist, 1)).out

\* two reads, the second one starting in the first output block and ending
\* in the second
C6_Witness ==
    /\ Len(hashers) = 1
    /\ XofReads(hashers[1])
    /\ Len(hashers[1].hist) = 4
    /\ hashers[1].hist[1].op = "update" /\ hashers[1].hist[1].n = 1023
    /\ hashers[1].hist[2].op = "update" /\ hashers[1].hist[2].n = 4096
    /\ hashers[1].hist[3].n = 33
    /\ hashers[1].hist[4].n = 64
    /\ Len(hashers[1].hist[4].out) = 2

\* C7: a keyed hasher, or the keyed one-shot hash, asked for with a key that
\* is not 32 bytes long fails in the constructor; nothing is absorbed
C7_BadKeyFailsFast ==
    \A i \in 1..Len(hashers) :
        (hashers[i].keyLen >= 0 /\ hashers[i].keyLen # 32) =>
            (~hashers[i].ok /\ hashers[i].hist = <<>>)

\* a constructor that was given a key of 31 bytes and threw
C7_Witness ==
    /\ Len(hashers) = 1
    /\ hashers[1].keyLen = 31
    /\ ~hashers[1].ok

(***************************************************************************)
(* Two instances side by side, their calls interleaved in any order.       *)
(***************************************************************************)
MaxPairParts == 2
PairLens == {1, 1024}
PairKeyLens == {-1, 32}

NextPair ==
    \/ \E keyLen \in PairKeyLens : NewHasherCall(keyLen, 2)
    \/ \E keyLen \in PairKeyLens : NewBlake3Call(keyLen, 2)
    \/ \E i \in 1..2, n \in PairLens : HasherUpdateCall(i, n, MaxPairParts)
    \/ \E i \in 1..2 : HasherFinalizeCall(i, 32, 1)
    \/ \E i \in 1..2, n \in PairLens : Blake3UpdateCall(i, n, MaxPairParts)
    \/ \E i \in 1..2 : DigestCall(i, 1)

SpecPair == InitStream /\ [][NextPair]_vars

\* one call made on an instance that is alone in a module whose B3_IV holds g
DigestAlone(w, g, r) ==
    [w |-> Read(w, r, "digest", 32), g |-> IF r.thrown THEN g ELSE DestroyedIV(r.b, g)]

CallAlone(a, c) ==
    IF c.op = "update" /\ a.w.impl = "Hasher"
    THEN [a EXCEPT !.w = Called(@, HasherUpdate(@.obj, PartAt(Fed(@.hist, Len(@.hist)), c.n)),
                                "update", c.n, FALSE, <<>>)]
    ELSE IF c.op = "update"
    THEN [a EXCEPT !.w = Updated(@, Blake3Update(@.obj, a.g, PartAt(Fed(@.hist, Len(@.hist)), c.n)),
                                 c.n)]
    ELSE IF c.op = "finalize"
    THEN [a EXCEPT !.w = Finalized(@, HasherFinalize(@.obj, c.n), c.n)]
    ELSE IF c.op = "xof"
    THEN [a EXCEPT !.w = Read(@, xofInto(@.obj, a.g, c.n), "xof", c.n)]
    ELSE DigestAlone(a.w, a.g, digest(a.w.obj, a.g))

\* the instance made and called as w was, with no other instance around
RECURSIVE Alone(_, _)
Alone(w, k) ==
    IF k = 0
    THEN [w |-> Made(w.impl, w.via, w.keyLen,
                     IF w.impl = "Hasher" THEN Hasher(w.keyLen, 0) ELSE Blake3(w.keyLen, IV)),
          g |-> IV]
    ELSE CallAlone(Alone(w, k - 1), w.hist[k])

\* C10: whatever was called on the other instance in between, every call
\* on an instance returns what it returns when that instance is alone
C10_InstancesIndependent ==
    \A i \in 1..Len(hashers) :
        hashers[i].hist = Alone(hashers[i], Len(hashers[i].hist)).w.hist

\* two Blake3 made first; the first was given 1024 bytes and one more and
\* digested, and the second was given bytes and digested after that
C10_Witness ==
    /\ Len(hashers) = 2
    /\ hashers[1].impl = "Blake3" /\ hashers[2].impl = "Blake3"
    /\ Len(hashers[1].hist) = 3 /\ hashers[1].hist[3].op = "digest"
    /\ ~hashers[1].hist[3].thrown
    /\ Len(hashers[2].hist) = 3 /\ hashers[2].hist[3].op = "digest"
    /\ ~hashers[2].hist[3].thrown
    /\ hashers[1].hist[1].n = 1024 /\ hashers[2].hist[1].n = 1
    /\ hashers[1].hist[3].out # hashers[2].hist[3].out

(***************************************************************************)
(* The calls of the one-shot hash of vt1.js.  calls keeps, for every call, *)
(* its input, the outputLen asked for and what the call returned.          *)
(***************************************************************************)
MaxHashCalls == 2
HashLens == {0, 1, 64, 1024, 1025, 4096, 4097, 8192}
OutputLens == {0, 32, 64, 100}

\* the module after a call on the path for up to 32 bytes
HashCallDone(input, outputLen, hs) ==
    /\ calls' = Append(calls, [input |-> input, outputLen |-> outputLen,
                               ret |-> HashReturned(hs, IF outputLen = 0 THEN 32 ELSE outputLen)])
    /\ cvStack' = [len |-> hs.cap, s |-> hs.stack]
    /\ blockWords' = hs.blockWords
    /\ trace' = hs.log

\* hash(input, outputLen)
HashCall(input, outputLen) ==
    /\ Len(calls) < MaxHashCalls
    /\ IF (IF outputLen = 0 THEN 32 ELSE outputLen) > 32
       THEN /\ calls' = Append(calls, [input |-> input, outputLen |-> outputLen,
                                       ret |-> hash(input, outputLen, wasmSimdEnabled,
                                                    cvStack, blockWords)])
            /\ UNCHANGED <<cvStack, blockWords, trace>>
       ELSE HashCallDone(input, outputLen, hashWords(input, wasmSimdEnabled, cvStack, blockWords))
    /\ UNCHANGED <<run, wasmSupported, globalWorkBuffer, globalCvStack, B3_IV,
                   wasmSimdEnabled, hashers>>

\* the inputs of the one-shot calls: generateTestInput(n)
HashInputs == {WholeInput(n) : n \in HashLens}

NextHash ==
    \/ InitSimd
    \/ \E input \in HashInputs, outputLen \in OutputLens : HashCall(input, outputLen)

SpecHash == InitStream /\ [][NextHash]_vars

\* C5: for an output length n of 32 or more, the 32 bytes of hash(x, 32)
\* are the first 32 bytes of hash(x, n)
C5_DigestIsPrefix ==
    \A i, j \in 1..Len(calls) :
        (/\ calls[i].input = calls[j].input
         /\ calls[i].outputLen = 32
         /\ calls[j].outputLen >= 32) =>
            (/\ ~calls[i].ret.thrown
             /\ ~calls[j].ret.thrown
             /\ calls[i].ret.out = SliceBytes(calls[j].ret.out, 32))

(***************************************************************************)
(* Word arithmetic and the rounds of compress (part_001).                  *)
(***************************************************************************)
RECURSIVE XorBits(_, _, _)
XorBits(a, b, k) ==
    IF k = 0 THEN 0 ELSE ((a + b) % 2) + 2 * XorBits(a \div 2, b \div 2, k - 1)

\* a ^ b for two bytes, at [a + 1][b + 1]
XorTable == [a \in 1..256 |-> [b \in 1..256 |-> XorBits(a - 1, b - 1, 8)] \o <<>>] \o <<>>

Xor16(p, q) ==
    256 * XorTable[(p \div 256) + 1][(q \div 256) + 1] + XorTable[(p % 256) + 1][(q % 256) + 1]

\* a ^ b
Xor(a, b) == << Xor16(a[1], b[1]), Xor16(a[2], b[2]) >>

\* (a + b) | 0
Add(a, b) ==
    << (a[1] + b[1]) % 65536, (a[2] + b[2] + ((a[1] + b[1]) \div 65536)) % 65536 >>

\* n | 0 as the 32 bits of the word
ToWord(n) == << n % 65536, (n \div 65536) % 65536 >>

\* (a >>> n) | (a << (32 - n)) for n = 16, 12, 8, 7
Rotr(a, n) ==
    IF n = 16 THEN << a[2], a[1] >>
    ELSE IF n = 12
    THEN << (a[1] \div 4096) + 16 * (a[2] % 4096), (a[2] \div 4096) + 16 * (a[1] % 4096) >>
    ELSE IF n = 8
    THEN << (a[1] \div 256) + 256 * (a[2] % 256), (a[2] \div 256) + 256 * (a[1] % 256) >>
    ELSE << (a[1] \div 128) + 512 * (a[2] % 128), (a[2] \div 128) + 512 * (a[1] % 128) >>

\* the statements of one G on the words <<a, b, c, d>>:
\* a = (((a + b) | 0) + m) | 0
GAdd(q, mw) == << Add(Add(q[1], q[2]), mw), q[2], q[3], q[4] >>
\* d ^= a; d = (d >>> n) | (d << (32 - n))
GRotD(q, n) == << q[1], q[2], q[3], Rotr(Xor(q[4], q[1]), n) >>
\* c = (c + d) | 0
GAddC(q) == << q[1], q[2], Add(q[3], q[4]), q[4] >>
\* b ^= c; b = (b >>> n) | (b << (32 - n))
GRotB(q, n) == << q[1], Rotr(Xor(q[2], q[3]), n), q[3], q[4] >>

G(q, mx, my) ==
    GRotB(GAddC(GRotD(GAdd(GRotB(GAddC(GRotD(GAdd(q, mx), 16)), 12), my), 8)), 7)

\* the state words of the eight G of a round: four columns, four diagonals
Quads == << <<1, 5, 9, 13>>, <<2, 6, 10, 14>>, <<3, 7, 11, 15>>, <<4, 8, 12, 16>>,
            <<1, 6, 11, 16>>, <<2, 7, 12, 13>>, <<3, 8, 9, 14>>, <<4, 5, 10, 15>> >>

Put(s, ix, q) ==
    [s EXCEPT ![ix[1]] = q[1], ![ix[2]] = q[2], ![ix[3]] = q[3], ![ix[4]] = q[4]]

Mix(s, ix, mx, my) == Put(s, ix, G(<< s[ix[1]], s[ix[2]], s[ix[3]], s[ix[4]] >>, mx, my))

\* the first k G of a round on the message m
RECURSIVE MixTo(_, _, _)
MixTo(s, m, k) ==
    IF k = 0 THEN s ELSE Mix(MixTo(s, m, k - 1), Quads[k], m[2 * k - 1], m[2 * k])

MSG_PERMUTATION == <<2, 6, 3, 10, 7, 0, 4, 13, 1, 11, 12, 5, 9, 14, 15, 8>>

\* the new message_i is the old message_(MSG_PERMUTATION[i])
Permute(m) == [i \in 1..16 |-> m[MSG_PERMUTATION[i] + 1]] \o <<>>

CV8(v) == SubSeq(v, 1, 8)

\* s_0 .. s_15 and message_0 .. message_15 before the first round
CompressStart(cv, m, counter, blockLen, flags) ==
    [s |-> cv \o SubSeq(IV, 1, 4) \o << ToWord(counter), ZeroWord, ToWord(blockLen), ToWord(flags) >>,
     m |-> m, r |-> 0, cv |-> cv]

\* one pass of for (round = 0; round < 7; ++round): eight G, then the
\* permutation of the message unless round is 6
Round(w) ==
    [w EXCEPT !.s = MixTo(w.s, w.m, 8),
              !.m = IF w.r = 6 THEN @ ELSE Permute(@),
              !.r = @ + 1]

\* out[8 + i] = s_(8 + i) ^ cv[i], out[i] = s_i ^ s_(8 + i)
CompressOut(w) ==
    [i \in 1..16 |-> IF i <= 8 THEN Xor(w.s[i], w.s[i + 8]) ELSE Xor(w.s[i], w.cv[i - 8])] \o <<>>

(***************************************************************************)
(* The words of a returned digest.  run.focus is the value wanted: the    *)
(* record of a compress call, or words.  run.frames are the calls whose    *)
(* arguments are being computed, run.work the call whose rounds run.       *)
(***************************************************************************)
Frame(kind, call) ==
    [kind |-> kind, cv |-> <<>>, l |-> <<>>, m |-> call[3], counter |-> call[4],
     blockLen |-> call[5], flags |-> call[6]]

Load(ret) ==
    IF ret.thrown THEN NoRun
    ELSE [live |-> TRUE, frames |-> <<>>, focus |-> ret.out[1].w, work |-> <<>>]

Pop(frames) == SubSeq(frames, 1, Len(frames) - 1)

\* the words v are the argument the frame f waited for
ReturnTo(r, f, v) ==
    IF f.kind = "cv" /\ Len(f.m) = 16
    THEN [r EXCEPT !.frames = Pop(@), !.focus = <<>>,
                   !.work = << CompressStart(v, f.m, f.counter, f.blockLen, f.flags) >>]
    ELSE IF f.kind = "cv"
    THEN [r EXCEPT !.frames = Pop(@) \o << [f EXCEPT !.kind = "left", !.cv = v] >>,
                   !.focus = f.m[1]]
    ELSE IF f.kind = "left"
    THEN [r EXCEPT !.frames = Pop(@) \o << [f EXCEPT !.kind = "right", !.l = v] >>,
                   !.focus = f.m[2]]
    ELSE [r EXCEPT !.frames = Pop(@), !.focus = <<>>,
                   !.work = << CompressStart(f.cv, f.l \o v, f.counter, f.blockLen, f.flags) >>]

Module == <<wasmSupported, globalWorkBuffer, globalCvStack, calls, trace, B3_IV,
            wasmSimdEnabled, cvStack, blockWords, hashers>>

\* a compress call whose chaining value is not computed yet
EnterCall ==
    /\ run.live /\ run.work = <<>> /\ Len(run.focus) = 6
    /\ run' = [run EXCEPT !.frames = Append(@, Frame("cv", run.focus)), !.focus = run.focus[2]]
    /\ UNCHANGED Module

\* a chaining value or one half of a parent block is computed
ArgumentReady ==
    /\ run.live /\ run.work = <<>> /\ Len(run.focus) \in {8, 16} /\ run.frames # <<>>
    /\ run' = ReturnTo(run, run.frames[Len(run.frames)], CV8(run.focus))
    /\ UNCHANGED Module

CompressRound ==
    /\ run.work # <<>> /\ run.work[1].r < 7
    /\ run' = [run EXCEPT !.work = << Round(run.work[1]) >>]
    /\ UNCHANGED Module

CompressReturn ==
    /\ run.work # <<>> /\ run.work[1].r = 7
    /\ run' = [run EXCEPT !.work = <<>>, !.focus = CompressOut(run.work[1])]
    /\ UNCHANGED Module

\* the digest is computed
Finished == run.live /\ run.work = <<>> /\ run.frames = <<>> /\ Len(run.focus) \in {8, 16}

(***************************************************************************)
(* src/js/test_blake3.js: the vector loop of runTests on hash of part_001. *)
(***************************************************************************)
VECTOR == <<
    <<0, "af1349b9f5f9a1a6a0404dea36dcc9499bcb25c9adc112b7cc9a93cae41f3262">>,
    <<1, "2d3adedff11b61f14c886e35afa036736dcd87a74d27b5c1510225d0f592e213">>,
    <<2, "7b7015bb92cf0b318037702a6cdd81dee41224f734684c2c122cd6359cb1ee63">>,
    <<3, "e1be4d7a8ab5560aa4199eea339849ba8e293d55ca0a81006726d184519e647f">>,
    <<4, "f30f5ab28fe047904037f77b6da4fea1e27241c5d132638d8bedce9d40494f32">>,
    <<5, "b40b44dfd97e7a84a996a91af8b85188c66c126940ba7aad2e7ae6b385402aa2">>,
    <<6, "06c4e8ffb6872fad96f9aaca5eee1553eb62aed0ad7198cef42e87f6a616c844">>,
    <<7, "3f8770f387faad08faa9d8414e9f449ac68e6ff0417f673f602a646a891419fe">>,
    <<8, "2351207d04fc16ade43ccab08600939c7c1fa70a5c0aaca76063d04c3228eaeb">>,
    <<63, "e9bc37a594daad83be9470df7f7b3798297c3d834ce80ba85d6e207627b7db7b">>,
    <<64, "4eed7141ea4a5cd4b788606bd23f46e212af9cacebacdc7d1f4c6dc7f2511b98">>,
    <<65, "de1e5fa0be70df6d2be8fffd0e99ceaa8eb6e8c93a63f2d8d1c30ecb6b263dee">>,
    <<127, "d81293fda863f008c09e92fc382a81f5a0b4a1251cba1634016a0f86a6bd640d">>,
    <<128, "f17e570564b26578c33bb7f44643f539624b05df1a76c81f30acd548c44b45ef">>,
    <<129, "683aaae9f3c5ba37eaaf072aed0f9e30bac0865137bae68b1fde4ca2aebdcb12">>,
    <<191, "67950b54b585e93b7234229ed3a00bcba5f1fa8e6226f367e638f24916384d89">>,
    <<192, "4abc5d2328fb4acc549aff4b877df00ba52d469757749d6b8c33d45870b8fcff">>,
    <<193, "a8934f0168769c388914ee5c2de61aefbdd6251c9d7e658068e348f6b8bd0a29">>,
    <<255, "cb97b80a66306dd2d4f1ab7ff9fd17d3d62d88c974e8daf0ea9fbd0b1ae1b1c1">>,
    <<256, "f462b63aae56ed9fb899ad8eb93aa35d3dd62773fda9c33bfe20f9dab5d3df5f">>,
    <<257, "3d41df314e2c7af6919d994b391780a7d8abb9a57b1abf64e04ec5d49428788e">>,
    <<319, "ce21e90a76c4a57b80f99c50c0d56383ecd85085809b525491ec2b66d8cfe5cc">>,
    <<320, "903c2e3b10f271075910c05a2b30c67a140badf0c5dc6d3eb3875fba46eb19a9">>,
    <<321, "de9dd4aa73bfecbbed26046a57fd344e2cb6c21bde3db2188b7ac1437b4cc622">>,
    <<383, "bcd1c37d3184f20bad0761a8b59afec3127ee5cb7c80fae2a3ca5d8f3b32d468">>,
    <<384, "811d13da83e9d2e69f23267993a93f263170d619bd89a2ef891a9768f2a50631">>,
    <<385, "a782f0b55f9ab29cd46aef1151a19d89ba213cd27fae75c0dc8b7df3e9f8668b">>,
    <<447, "9e4464e6b8a43e3a0ac0bf2566567a11bbbddce001c2499ae5a62713fdb9ba36">>,
    <<448, "5123acf08d1fbeeebf4100da5ecbc6f19dc8d210ca53b5b014685f214563fb84">>,
    <<449, "68daf47c78621b4c8d962803c79b82e07155aa30b32bd1a26ccd66b4bc2f16df">>,
    <<511, "7469b385b5290a1011288fc80a7fdb8677497dbc1d3b6daf93667725f68708f5">>,
    <<512, "87aa0321ee04decf72d6fe8d5799d6216db538c0da4a367d6d456643e9ea7994">>,
    <<513, "8e89cd63966193dfaecf124fe5893bf609aba748067b321afadc974d58374498">>,
    <<575, "25637e6b978882dff2b1da5bbb12f65ee48e544e70b8d04d4f0c4f7b147939dd">>,
    <<576, "60b70fd3325e647bb99d4e69ed42b9d33f00f29e0e441a272ecdbeb858461c1c">>,
    <<577, "ce2349308e0aa503b4291bbab650da2b5544b27e873e68f961252cf16aa1be96">>,
    <<639, "5f69abf86b748d9d289de6764f199cf5814ad97151b6d2b3037f07e468fccab4">>,
    <<640, "29dbeca150847d06d0470f2aee46a85bacaa3361375ff0e33124a19c574ade0f">>,
    <<641, "da83dbb80e4e880e10d78e384643b6d4907c35ab7e98055ed39622b1e2ee8263">>,
    <<703, "61873102398553a36bbdd6c805cff83471da71ab4521305cd9724420e865b6a0">>,
    <<704, "907676c7892936c58b2ba0c3c9655aaee7189c3f4a5114780a5a117806b06314">>,
    <<705, "c8ff8ecd3915e88b63f696cae50fc540319ec7b9abeda5d409b14b2c2939276e">>,
    <<767, "6d8cf1ac522e7abdbc5afa1d7b8516ee4a3e1700fd7dabf390376ba11a4ad26a">>,
    <<768, "fb888f4f3827814595f4f71391ac2fbf4d3d78a136f5b5226bb4a04fa94f624f">>,
    <<769, "5aa9007aa5cef8a69351dd3e4e6825c96b48913059f8c88676fff9b1834d263f">>,
    <<831, "ffce0f39cd0d42aab300d8e0adb22a7a9f4d922f8583eaf90e5efba9a7960b00">>,
    <<832, "4a9410e39c8d26e16ad25638b211c87a13c0eb5a38e6c4ad906026a8b9aac20b">>,
    <<1023, "10108970eeda3eb932baac1428c7a2163b0e924c9a9e25b35bba72b28f70bd11">>,
    <<1024, "42214739f095a406f3fc83deb889744ac00df831c10daa55189b5d121c855af7">>,
    <<1025, "d00278ae47eb27b34faecf67b4fe263f82d5412916c1ffd97c8cb7fb814b8444">>,
    <<2048, "e776b6028c7cd22a4d0ba182a8bf62205d2ef576467e838ed6f2529b85fba24a">>,
    <<2049, "5f4d72f40d7a5f82b15ca2b2e44b1de3c2ef86c426c95c1af0b6879522563030">>,
    <<3072, "b98cb0ff3623be03326b373de6b9095218513e64f1ee2edd2525c7ad1e5cffd2">>,
    <<3073, "7124b49501012f81cc7f11ca069ec9226cecb8a2c850cfe644e327d22d3e1cd3">>,
    <<4096, "015094013f57a5277b59d8475c0501042c0b642e531b0a1c8f58d2163229e969">>,
    <<8192, "aae792484c8efe4f19e2ca7d371d8c467ffb10748d8a5a1ae579948f718a2a63">>,
    <<16384, "f875d6646de28985646f34ee13be9a576fd515f76b5b0a26bb324735041ddde4">>,
    <<31744, "62b6960e1a44bcc1eb1a611a8d6235b6b4b78f32e7abc4fb4c6cdcce94895c47">>,
    <<102400, "bc3e3d41a1146b069abffad3c0d44860cf664390afce4d9661f7902e7943e085">>,
    <<833, "fd8a1f8ebc61b34f562824ffe7d7f27df275e95932e0e1e7543077948c90b0d3">>,
    <<895, "d8f58b0507c439d9d83d21951b5db30759dd381917995ce768e02b77046575c6">>,
    <<896, "ebf97176a6f047d66ad1605b7618f00b9cbd664353e15c7b9aa242fc230421c2">>,
    <<897, "3ca417aa14b1955eaadc0a5aee524316757504a21781cd26f408abe7f6ff99c8">>,
    <<959, "87a466d37769edb980266201709499d2d1a6d6d6ea9667b22424d4f2c3f8db47">>,
    <<960, "ccc77ee941c7c4ea0371d55fc11949b3d2ceb886e441efa5604565c1e1b1b643">>,
    <<961, "e78a4911bd8d3a1e2018053b9d89d4abe2ca86af1305bf1dce1e8310ec2ec7f0">>,
    <<66497, "376b17655308e84079e3ca285b80b24cc8c64d5a73fba1bada87b5809df7d998">> >>

MaxVectorLen == 8192

VectorSizes == {VECTOR[i][1] : i \in {k \in 1..Len(VECTOR) : VECTOR[k][1] <= MaxVectorLen}}

Expected(size) == VECTOR[CHOOSE i \in 1..Len(VECTOR) : VECTOR[i][1] = size][2]

HexDigit == <<"0", "1", "2", "3", "4", "5", "6", "7", "8", "9", "a", "b", "c", "d", "e", "f">>

\* b.toString(16).padStart(2, '0') for the bytes lo .. hi, joined
RECURSIVE HexOf(_, _, _)
HexOf(bytes, lo, hi) ==
    IF lo = hi THEN HexDigit[(bytes[lo] \div 16) + 1] \o HexDigit[(bytes[lo] % 16) + 1]
    ELSE HexOf(bytes, lo, (lo + hi) \div 2) \o HexOf(bytes, ((lo + hi) \div 2) + 1, hi)

bytesToHex(bytes) == IF bytes = <<>> THEN "" ELSE HexOf(bytes, 1, Len(bytes))

\* byte k of the little-endian bytes of the words
ByteOfWords(words, k) ==
    IF k % 4 = 0 THEN words[(k \div 4) + 1][1] % 256
    ELSE IF k % 4 = 1 THEN words[(k \div 4) + 1][1] \div 256
    ELSE IF k % 4 = 2 THEN words[(k \div 4) + 1][2] % 256
    ELSE words[(k \div 4) + 1][2] \div 256

\* the bytes of the run [w, from, to] of output bytes, w computed as words
BytesOf(words, from, to) == [k \in 1..(to - from) |-> ByteOfWords(words, from + k - 1)] \o <<>>

\* what a call leaves behind, and the digest to compute
VectorDone(st, input) ==
    /\ Return(st, input)
    /\ run' = Load(Returned(st))

\* const result = blake3(generateTestInput(size))
VectorCall(size) ==
    /\ calls = <<>>
    /\ VectorDone(blake3(WholeInput(size), globalWorkBuffer, globalCvStack), WholeInput(size))
    /\ UNCHANGED <<wasmSupported, B3_IV, wasmSimdEnabled, cvStack, blockWords, hashers>>

NextVectors ==
    \/ \E size \in VectorSizes : VectorCall(size)
    \/ EnterCall
    \/ ArgumentReady
    \/ CompressRound
    \/ CompressReturn

SpecVectors == InitCalls /\ [][NextVectors]_vars

\* bytesToHex(result) of the call made
ResultHex == bytesToHex(BytesOf(run.focus, calls[1].ret.out[1].from, calls[1].ret.out[1].to))

LittleEndianKey ==
    [i \in 1..8 |-> << KeyByte(4 * i - 4) + 256 * KeyByte(4 * i - 3),
                       KeyByte(4 * i - 2) + 256 * KeyByte(4 * i - 1) >>] \o <<>>

\* of the three mode flags, exactly KEYED_HASH
OnlyKeyedHash(flags) == (flags \div KEYED_HASH) % 8 = 1

\* every compress call under x carries KEYED_HASH and no other mode flag; a
\* parent compression has the key as its cv, and the compressions of a chunk
\* chain from the key
RECURSIVE KeyedTree(_, _)
KeyedTree(x, key) ==
    \/ Len(x) # 6
    \/ /\ OnlyKeyedHash(x[6])
       /\ IF HasFlag(x[6], PARENT) THEN x[2] = key
          ELSE Len(x[2]) = 6 \/ x[2] = key
       /\ KeyedTree(x[2], key)
       /\ \/ Len(x[3]) # 2
          \/ KeyedTree(x[3][1], key) /\ KeyedTree(x[3][2], key)

\* the base key and the base flags an instance holds
KeyedFields(w, key) ==
    IF w.impl = "Hasher" THEN w.obj.keyWords = key /\ w.obj.baseFlags = KEYED_HASH
    ELSE w.obj.destroyed \/ (w.obj.IV.v = key /\ OnlyKeyedHash(w.obj.flags))

\* an instance made with a key of 32 bytes
IsKeyed(w) == w.ok /\ w.keyLen = 32

\* C11: a keyed hasher starts every chunk and every parent compression from
\* the key read as eight little-endian words, and every compression it
\* performs (chunk, parent, root) carries KEYED_HASH
C11_KeyedEverywhere ==
    \A i \in 1..Len(hashers) :
        IsKeyed(hashers[i]) =>
            /\ KeyedFields(hashers[i], LittleEndianKey)
            /\ \A k \in 1..Len(hashers[i].hist) : \A j \in 1..Len(hashers[i].hist[k].out) :
                   KeyedTree(hashers[i].hist[k].out[j].w, LittleEndianKey)

\* a keyed Hasher given 4096 bytes and one more, then finalized: five
\* chunks under a root that merges two chaining values
C11_Witness ==
    /\ Len(hashers) = 1
    /\ IsKeyed(hashers[1])
    /\ hashers[1].impl = "Hasher"
    /\ Len(hashers[1].hist) = 3
    /\ hashers[1].hist[1].n = 4096 /\ hashers[1].hist[2].n = 1
    /\ hashers[1].hist[3].op = "finalize" /\ ~hashers[1].hist[3].thrown
    /\ HasFlag(hashers[1].hist[3].out[1].w[6], PARENT)
    /\ HasFlag(hashers[1].hist[3].out[1].w[6], ROOT)

(***************************************************************************)
(* The tree of the design: what the chunks, the parents and the root of an *)
(* input are, for a base key and a mode flag.  The claims compare the      *)
(* compress calls of the code with it.                                     *)
(***************************************************************************)
TreeByte(input, o, len, j) == IF j < len THEN ByteAt(input, o + j) ELSE 0

\* the len bytes at o as 16 little-endian words, zero-padded
TreeWords(input, o, len) ==
    [i \in 1..16 |->
        << TreeByte(input, o, len, 4 * i - 4) + 256 * TreeByte(input, o, len, 4 * i - 3),
           TreeByte(input, o, len, 4 * i - 2) + 256 * TreeByte(input, o, len, 4 * i - 1) >>] \o <<>>

TreeBlockFlags(mode, b, nb, root) ==
    mode + (IF b = 0 THEN CHUNK_START ELSE 0)
         + (IF b = nb - 1 THEN CHUNK_END ELSE 0)
         + (IF b = nb - 1 /\ root THEN ROOT ELSE 0)

\* the blocks b .. nb - 1 of chunk k, clen bytes at start, chained from cv
RECURSIVE TreeBlocks(_, _, _, _, _, _, _, _, _)
TreeBlocks(cv, input, start, clen, k, b, nb, mode, root) ==
    IF b = nb THEN cv
    ELSE TreeBlocks(compress(cv, TreeWords(input, start + 64 * b, Min(64, clen - 64 * b)), k,
                             Min(64, clen - 64 * b), TreeBlockFlags(mode, b, nb, root)),
                    input, start, clen, k, b + 1, nb, mode, root)

TreeChunkLen(input, k) == Min(CHUNK_LEN, input.len - CHUNK_LEN * k)

TreeNumBlocks(clen) == IF clen = 0 THEN 1 ELSE (clen + 63) \div 64

\* chunk k of the input
TreeChunk(key, mode, input, k, root) ==
    TreeBlocks(key, input, CHUNK_LEN * k, TreeChunkLen(input, k), k, 0,
               TreeNumBlocks(TreeChunkLen(input, k)), mode, root)

\* the largest power of two below n
RECURSIVE LeftChunks(_, _)
LeftChunks(n, p) == IF 2 * p >= n THEN p ELSE LeftChunks(n, 2 * p)

\* the chaining value of the n chunks from k0 on
RECURSIVE TreeNode(_, _, _, _, _)
TreeNode(key, mode, input, k0, n) ==
    IF n = 1 THEN TreeChunk(key, mode, input, k0, FALSE)
    ELSE compress(key,
                  ParentBlock(TreeNode(key, mode, input, k0, LeftChunks(n, 1)),
                              TreeNode(key, mode, input, k0 + LeftChunks(n, 1), n - LeftChunks(n, 1))),
                  0, BLOCK_LEN, mode + PARENT)

TreeNumChunks(len) == IF len = 0 THEN 1 ELSE (len + CHUNK_LEN - 1) \div CHUNK_LEN

TreeRootOf(key, mode, input, n) ==
    IF n = 1 THEN TreeChunk(key, mode, input, 0, TRUE)
    ELSE compress(key,
                  ParentBlock(TreeNode(key, mode, input, 0, LeftChunks(n, 1)),
                              TreeNode(key, mode, input, LeftChunks(n, 1), n - LeftChunks(n, 1))),
                  0, BLOCK_LEN, mode + PARENT + ROOT)

\* the root compression of the input
TreeRoot(key, mode, input) == TreeRootOf(key, mode, input, TreeNumChunks(input.len))

(***************************************************************************)
(* Key derivation: deriveKey of vt1.js and new Blake3({context}) of v3.js. *)
(* The context is the bytes 0 .. len - 1 of the test pattern.              *)
(***************************************************************************)
RECURSIVE ByteLength(_)
ByteLength(bytes) ==
    IF bytes = <<>> THEN 0 ELSE (bytes[1].to - bytes[1].from) + ByteLength(Tail(bytes))

\* key[4i] | key[4i+1] << 8 | .. over 32 bytes that are the little-endian
\* bytes 0 .. 31 of the words w: the first eight words of w
LittleEndianWords(bytes) ==
    IF Len(bytes) = 1 /\ bytes[1].from = 0 /\ bytes[1].to = 32 THEN bytes[1].w
    ELSE <<"words", bytes>>

\* keyToWords(key) for a key that is bytes a call returned
keyToWordsOf(bytes) ==
    IF ByteLength(bytes) # 32 THEN [thrown |-> TRUE, words |-> <<>>]
    ELSE [thrown |-> FALSE, words |-> LittleEndianWords(bytes)]

\* contextHasher = new Hasher(null, DERIVE_KEY_CONTEXT); update(context); finalize(32)
contextKey(context) ==
    HasherFinalize(HasherUpdate(Hasher(-1, DERIVE_KEY_CONTEXT).h, context), 32).out

\* materialHasher = new Hasher(contextKey, DERIVE_KEY_MATERIAL)
materialHasher(context) == HasherWithKey(keyToWordsOf(contextKey(context)), DERIVE_KEY_MATERIAL)

\* deriveKey(context, keyMaterial, outputLen)
deriveKey(context, keyMaterial, outputLen) ==
    HashKeyedWith(materialHasher(context), keyMaterial, outputLen)

\* new Blake3({dkLen: 32}, DERIVE_KEY_CONTEXT).update(context).digest()
Blake3ContextKey(context, g) ==
    digest(Blake3Update(Blake3Fields(slice([ref |-> "B3_IV", v |-> g]), g, DERIVE_KEY_CONTEXT),
                        g, context).b, g)

\* this.IV = u32(contextKey); this.flags = flags | DERIVE_KEY_MATERIAL
Blake3Material(r, g) ==
    [thrown |-> r.thrown,
     g |-> IF r.thrown THEN g ELSE DestroyedIV(r.b, g),
     b |-> IF r.thrown THEN NoObject
           ELSE Blake3Fields([ref |-> "own", v |-> LittleEndianWords(r.out)],
                             DestroyedIV(r.b, g), DERIVE_KEY_MATERIAL)]

\* new Blake3({context})
Blake3WithContext(context, g) == Blake3Material(Blake3ContextKey(context, g), g)

MaxDerived == 1
ContextLens == {0, 1, 64, 1025}

DeriveKeyDone(ctx, n, outputLen, r) ==
    [impl |-> "Hasher", via |-> "deriveKey", keyLen |-> -1, ctx |-> ctx, ok |-> ~r.thrown,
     obj |-> IF r.thrown THEN NoObject ELSE r.h,
     hist |-> IF r.thrown THEN <<>>
              ELSE << [op |-> "update", n |-> n, thrown |-> FALSE, out |-> <<>>],
                      [op |-> "finalize", n |-> outputLen, thrown |-> r.thrown, out |-> r.out] >>]

\* deriveKey(context, keyMaterial, outputLen) of vt1.js
DeriveKeyCall(ctx, n, outputLen) ==
    /\ Len(hashers) < MaxDerived
    /\ hashers' = Append(hashers, DeriveKeyDone(ctx, n, outputLen,
                                                deriveKey(PartAt(0, ctx), PartAt(0, n), outputLen)))
    /\ UNCHANGED <<Rest, B3_IV, wasmSimdEnabled>>

Blake3ContextMade(ctx, r) ==
    /\ hashers' = Append(hashers, [impl |-> "Blake3", via |-> "new", keyLen |-> -1, ctx |-> ctx,
                                   ok |-> ~r.thrown, obj |-> r.b, hist |-> <<>>])
    /\ B3_IV' = r.g

\* new Blake3({context}) of v3.js
NewBlake3ContextCall(ctx) ==
    /\ Len(hashers) < MaxDerived
    /\ Blake3ContextMade(ctx, Blake3WithContext(PartAt(0, ctx), B3_IV))
    /\ UNCHANGED <<Rest, wasmSimdEnabled>>

NextDerive ==
    \/ \E ctx \in ContextLens, n \in PartLens, outputLen \in OutLens : DeriveKeyCall(ctx, n, outputLen)
    \/ \E ctx \in ContextLens : NewBlake3ContextCall(ctx)
    \/ \E n \in PartLens : Blake3UpdateCall(1, n, MaxParts)
    \/ \E n \in XofLens : XofCall(1, n, MaxReads)
    \/ DigestCall(1, MaxReads)

SpecDerive == InitStream /\ [][NextDerive]_vars

\* every compress call under x, down to the base key, carries the mode flag
\* and no other; a parent compression has the base key as its cv, and the
\* compressions of a chunk chain from the base key
RECURSIVE BaseTree(_, _, _)
BaseTree(x, key, mode) ==
    \/ Len(x) # 6
    \/ /\ (x[6] \div KEYED_HASH) % 8 = mode \div KEYED_HASH
       /\ IF HasFlag(x[6], PARENT) THEN x[2] = key
          ELSE x[2] = key \/ (Len(x[2]) = 6 /\ BaseTree(x[2], key, mode))
       /\ \/ Len(x[3]) # 2
          \/ BaseTree(x[3][1], key, mode) /\ BaseTree(x[3][2], key, mode)

\* the context key of the design: the context hashed from IV under DERIVE_KEY_CONTEXT
DesignContextKey(ctx) == TreeRoot(IV, DERIVE_KEY_CONTEXT, WholeInput(ctx))

\* the base key and the base flags an instance holds
DerivedFields(w, key) ==
    IF w.impl = "Hasher" THEN w.obj.keyWords = key /\ w.obj.baseFlags = DERIVE_KEY_MATERIAL
    ELSE w.obj.destroyed
         \/ (w.obj.IV.v = key /\ (w.obj.flags \div KEYED_HASH) % 8 = DERIVE_KEY_MATERIAL \div KEYED_HASH)

\* C12: key derivation hashes the context from IV under DERIVE_KEY_CONTEXT
\* to a context key, and hashes the key material with that context key as
\* base key and exactly DERIVE_KEY_MATERIAL as base flags
C12_TwoStageDerivation ==
    \A i \in 1..Len(hashers) :
        /\ hashers[i].ok
        /\ DerivedFields(hashers[i], DesignContextKey(hashers[i].ctx))
        /\ \A k \in 1..Len(hashers[i].hist) : \A j \in 1..Len(hashers[i].hist[k].out) :
              BaseTree(hashers[i].hist[k].out[j].w, DesignContextKey(hashers[i].ctx),
                       DERIVE_KEY_MATERIAL)

\* deriveKey with a context of two chunks and 4096 bytes of key material:
\* the root merges two chaining values from the context key
C12_Witness ==
    /\ Len(hashers) = 1
    /\ hashers[1].via = "deriveKey"
    /\ hashers[1].ctx = 1025
    /\ hashers[1].hist[1].n = 4096
    /\ ~hashers[1].hist[2].thrown
    /\ hashers[1].hist[2].out[1].w[6] = DERIVE_KEY_MATERIAL + PARENT + ROOT
    /\ hashers[1].hist[2].out[1].w[2] = DesignContextKey(1025)

(***************************************************************************)
(* digestInto of v3.js on an instance made with an output length.          *)
(***************************************************************************)
DkLens == {16, 32, 64}
IntoLens == {0, 15, 16, 31, 32, 63, 64}

\* new Blake3({dkLen}): this.outputLen = opts.dkLen ?? 32
Blake3WithLen(dkLen, g) == [Blake3(-1, g) EXCEPT !.b.outputLen = dkLen]

NewBlake3LenCall(dkLen, slots) ==
    /\ Len(hashers) < slots
    /\ hashers' = Append(hashers, Made("Blake3", "new", -1, Blake3WithLen(dkLen, B3_IV)))
    /\ UNCHANGED <<Rest, B3_IV, wasmSimdEnabled>>

DigestIntoDone(i, n, r) ==
    /\ hashers' = [hashers EXCEPT ![i] = Read(@, r, "digestInto", n)]
    /\ B3_IV' = IF r.thrown THEN B3_IV ELSE DestroyedIV(r.b, B3_IV)

\* h.digestInto(out) for an out of n bytes
DigestIntoCall(i, n, maxReads) ==
    /\ CanCall(i, "Blake3", FALSE, maxReads)
    /\ DigestIntoDone(i, n, digestInto(hashers[i].obj, B3_IV, n))
    /\ UNCHANGED <<Rest, wasmSimdEnabled>>

NextInto ==
    \/ \E dkLen \in DkLens : NewBlake3LenCall(dkLen, 1)
    \/ \E n \in PartLens : Blake3UpdateCall(1, n, MaxParts)
    \/ \E n \in IntoLens : DigestIntoCall(1, n, MaxReads)
    \/ DigestCall(1, MaxReads)

SpecInto == InitStream /\ [][NextInto]_vars

\* the call k of w is a digestInto with a buffer shorter than outputLen
ShortInto(w, k) == w.hist[k].op = "digestInto" /\ w.hist[k].n < w.obj.outputLen

\* C13: digestInto(out) with an out shorter than the requested output
\* length raises an error; nothing is written and the instance is not
\* finished by the call
C13_ShortBufferFailsFast ==
    \A i \in 1..Len(hashers) :
        /\ \A k \in 1..Len(hashers[i].hist) :
              ShortInto(hashers[i], k) =>
                  hashers[i].hist[k].thrown /\ hashers[i].hist[k].out = <<>>
        /\ (\A k \in 1..Len(hashers[i].hist) :
                hashers[i].hist[k].op = "update" \/ ShortInto(hashers[i], k)) =>
               (/\ ~hashers[i].obj.finished
                /\ ~hashers[i].obj.destroyed
                /\ hashers[i].obj.enableXOF
                /\ hashers[i].obj.posOut = 0)

\* an instance asked for 64 bytes, given 1023 bytes: digestInto of a
\* 63-byte buffer threw and digestInto of a 64-byte buffer then returned
C13_Witness ==
    /\ Len(hashers) = 1
    /\ hashers[1].obj.outputLen = 64
    /\ Len(hashers[1].hist) = 3
    /\ hashers[1].hist[1].op = "update" /\ hashers[1].hist[1].n = 1023
    /\ hashers[1].hist[2].op = "digestInto" /\ hashers[1].hist[2].n = 63
    /\ hashers[1].hist[2].thrown
    /\ hashers[1].hist[3].op = "digestInto" /\ hashers[1].hist[3].n = 64
    /\ ~hashers[1].hist[3].thrown
    /\ ByteLength(hashers[1].hist[3].out) = 64

(***************************************************************************)
(* The compress calls of one call of blake3 (part_001), read from trace.   *)
(***************************************************************************)
RECURSIVE PopCount(_)
PopCount(n) == IF n = 0 THEN 0 ELSE (n % 2) + PopCount(n \div 2)

\* the index of the last chunk of an input of len bytes
LastChunkIndex(len) == TreeNumChunks(len) - 1

\* how many compress calls of the log were made in the stages
CountStage(log, stages) == Cardinality({k \in 1..Len(log) : log[k].stage \in stages})

readLittleEndianWords(input, offset) ==
    fillBlockWords(input, offset, Min(BLOCK_LEN, input.len - offset))

V0Init == [cv |-> IV, stack |-> <<>>, offset |-> 0, chunkCounter |-> 0, log |-> <<>>,
           out |-> ZeroCV]

\* i === 0 ? CHUNK_START : i === 15 ? CHUNK_END : 0
V0BlockFlags(i) == IF i = 0 THEN CHUNK_START ELSE IF i = 15 THEN CHUNK_END ELSE 0

\* cv = first8Words(compress(cv, blockWords, chunkCounter, BLOCK_LEN, flags)), offset += 64
V0BlockStep(st, input, d, stage) ==
    [st EXCEPT !.cv = compress(st.cv, readLittleEndianWords(input, st.offset),
                               st.chunkCounter, BLOCK_LEN, d),
               !.offset = @ + 64,
               !.log = Append(@, LogEntry(stage, st.offset, st.chunkCounter, BLOCK_LEN, d))]

\* for (i = 0; i < n; ++i, offset += 64)
RECURSIVE V0Blocks(_, _, _, _, _)
V0Blocks(st, input, i, n, stage) ==
    IF ~(i < n) \/ st.offset < 0 THEN st
    ELSE V0Blocks(V0BlockStep(st, input, V0BlockFlags(i), stage), input, i + 1, n, stage)

\* rightChildCv = cvStack.pop(); leftChildCv = cvStack.pop(); push the parent
V0Merge(st, stage) ==
    [st EXCEPT !.stack = Append(SubSeq(@, 1, Len(@) - 2),
                                compress(IV, ParentBlock(@[Len(@) - 1], @[Len(@)]),
                                         0, BLOCK_LEN, PARENT)),
               !.log = Append(@, LogEntry(stage, -1, 0, BLOCK_LEN, PARENT))]

\* while ((totalChunks & 1) === 0) { merge; totalChunks >>= 1 }
RECURSIVE V0ChunkMerges(_, _)
V0ChunkMerges(st, totalChunks) ==
    IF totalChunks % 2 # 0 THEN st
    ELSE V0ChunkMerges(V0Merge(st, "merge"), totalChunks \div 2)

\* chunkCounter += 1; cvStack.push(cv); the merges
V0PushChunk(st) ==
    V0ChunkMerges([st EXCEPT !.chunkCounter = @ + 1, !.stack = Append(@, st.cv)],
                  st.chunkCounter + 1)

\* for (; offset < take; ) { cv = keyWords; 16 blocks; push; merges }
RECURSIVE V0FullChunks(_, _, _)
V0FullChunks(st, input, take) ==
    IF ~(st.offset < take) THEN st
    ELSE V0FullChunks(V0PushChunk(V0Blocks([st EXCEPT !.cv = IV], input, 0, 16, "full")),
                      input, take)

\* while (cvStack.length > 2) { merge }
RECURSIVE V0FinalMerges(_)
V0FinalMerges(st) ==
    IF ~(Len(st.stack) > 2) THEN st ELSE V0FinalMerges(V0Merge(st, "final"))

\* the last block of the last chunk, pushed, when the stack is not empty
V0LastChunk(st, input, fullBlocks) ==
    [st EXCEPT !.stack = Append(@, compress(st.cv, readLittleEndianWords(input, st.offset),
                                            st.chunkCounter, input.len - st.offset,
                                            CHUNK_END + (IF fullBlocks = 0 THEN CHUNK_START ELSE 0))),
               !.log = Append(@, LogEntry("last", st.offset, st.chunkCounter,
                                          input.len - st.offset,
                                          CHUNK_END + (IF fullBlocks = 0 THEN CHUNK_START ELSE 0)))]

\* compress(keyWords, left and right, 0, BLOCK_LEN, flags | PARENT | ROOT)
V0RootMerge(st) ==
    [st EXCEPT !.out = compress(IV, ParentBlock(st.stack[1], st.stack[2]),
                                0, BLOCK_LEN, PARENT + ROOT),
               !.stack = <<>>,
               !.log = Append(@, LogEntry("root", -1, 0, BLOCK_LEN, PARENT + ROOT))]

\* compress(cv, blockWords, 0, length - offset, flags | ROOT | CHUNK_END | ..)
V0RootChunk(st, input, fullBlocks) ==
    [st EXCEPT !.out = compress(st.cv, readLittleEndianWords(input, st.offset), 0,
                                input.len - st.offset,
                                ROOT + CHUNK_END + (IF fullBlocks = 0 THEN CHUNK_START ELSE 0)),
               !.log = Append(@, LogEntry("last", st.offset, 0, input.len - st.offset,
                                          ROOT + CHUNK_END
                                            + (IF fullBlocks = 0 THEN CHUNK_START ELSE 0)))]

V0Final(st, input, fullBlocks) ==
    IF st.offset >= 0 /\ Len(st.stack) = 0 THEN V0RootChunk(st, input, fullBlocks)
    ELSE V0RootMerge(V0FinalMerges(V0LastChunk(st, input, fullBlocks)))

\* fullBlocks that counts the last block when it is full
V0FullBlocks_Eager(remainingBytes) == remainingBytes \div 64

\* fullBlocks = remainingBytes > 0 ? ((remainingBytes - 1) / 64) | 0 : 0
V0FullBlocks(remainingBytes) == IF remainingBytes > 0 THEN (remainingBytes - 1) \div 64 ELSE 0

\* take = Math.max(0, ((length - 1) | 1023) - 1023)
V0Take(length) == IF length = 0 THEN 0 ELSE ((length - 1) \div CHUNK_LEN) * CHUNK_LEN

V0Tail(st, input) ==
    IF st.offset < 0 THEN st
    ELSE V0Final(V0Blocks([st EXCEPT !.cv = IV], input, 0,
                          V0FullBlocks(input.len - V0Take(input.len)), "tail"),
                 input, V0FullBlocks(input.len - V0Take(input.len)))

\* blake3(input) of v0.js
blake3_v0(input) == V0Tail(V0FullChunks(V0Init, input, V0Take(input.len)), input)

\* blake3(input) of v0.js returns new Uint8Array(out.buffer, 0, 32)
Blake3V0Call(input) ==
    /\ Len(calls) < MaxHashCalls
    /\ calls' = Append(calls, [input |-> input, outputLen |-> 32,
                               ret |-> [thrown |-> FALSE,
                                        out |-> DigestBytes(blake3_v0(input).out)]])
    /\ trace' = blake3_v0(input).log
    /\ UNCHANGED <<run, wasmSupported, globalWorkBuffer, globalCvStack, B3_IV,
                   wasmSimdEnabled, cvStack, blockWords, hashers>>

NextRoot ==
    \/ InitSimd
    \/ \E input \in HashInputs, outputLen \in OutputLens : HashCall(input, outputLen)
    \/ \E input \in HashInputs : Blake3V0Call(input)

SpecRoot == InitStream /\ [][NextRoot]_vars

\* the compress calls of the log that carry the flag
WithFlag(log, f) == {k \in 1..Len(log) : HasFlag(log[k].d, f)}

\* C16: an input of one chunk has its root in the last compress call of the
\* chunk, with CHUNK_END | ROOT and with CHUNK_START when that call is also
\* the first of the chunk, and no PARENT compress call is made; an input of
\* two chunks or more has the root PARENT | ROOT and no compress call of a
\* chunk carries ROOT
C16_RootPlacement ==
    (Len(calls) > 0 /\ ~LastCall.ret.thrown /\ LastCall.outputLen <= 32) =>
        /\ Len(trace) > 0
        /\ WithFlag(trace, ROOT) = {Len(trace)}
        /\ IF LastCall.input.len <= CHUNK_LEN
           THEN /\ WithFlag(trace, PARENT) = {}
                /\ trace[Len(trace)].d
                     = CHUNK_END + ROOT + (IF Len(trace) = 1 THEN CHUNK_START ELSE 0)
           ELSE /\ trace[Len(trace)].d = PARENT + ROOT
                /\ \A k \in 1..Len(trace) :
                      ~HasFlag(trace[k].d, PARENT) => ~HasFlag(trace[k].d, ROOT)

\* hash of vt1.js with SIMD on two groups after a call on one whole chunk
C16_Witness ==
    /\ Len(calls) = 2 /\ wasmSimdEnabled
    /\ calls[1].input.len = CHUNK_LEN /\ ~calls[1].ret.thrown
    /\ calls[2].input.len = 8192 /\ calls[2].outputLen = 32 /\ ~calls[2].ret.thrown
    /\ \E k \in 1..Len(trace) : trace[k].stage = "simd"
    /\ trace[Len(trace)].d = PARENT + ROOT

(***************************************************************************)
(* The compress calls of a Blake3 instance: each one made is a node of     *)
(* state, of an entry of stack, of bufferOut or of bytes handed out.       *)
(***************************************************************************)
\* a chaining value that is the result of a compress call
IsCompress(x) == Len(x) = 6 \/ (Len(x) = 8 /\ Len(x[8]) = 8)

\* no compress call below or at x carries ROOT
RECURSIVE WithoutRoot(_)
WithoutRoot(x) ==
    \/ ~IsCompress(x)
    \/ /\ ~HasFlag(x[6], ROOT)
       /\ WithoutRoot(x[2])
       /\ \/ Len(x[3]) # 2
          \/ WithoutRoot(x[3][1]) /\ WithoutRoot(x[3][2])

\* x is a compress call with ROOT, made of compress calls without ROOT
RootOnTop(x) ==
    /\ IsCompress(x)
    /\ HasFlag(x[6], ROOT)
    /\ WithoutRoot(x[2])
    /\ \/ Len(x[3]) # 2
       \/ WithoutRoot(x[3][1]) /\ WithoutRoot(x[3][2])

\* the same node of the tree: chaining value, message, block length and flags
SameNode(x, y) == x[2] = y[2] /\ x[3] = y[3] /\ x[5] = y[5] /\ x[6] = y[6]

\* the compress calls whose bytes the instance has handed out
OutNodes(w) ==
    UNION {{w.hist[k].out[r].w : r \in 1..Len(w.hist[k].out)} : k \in 1..Len(w.hist)}

\* C17: of the compress calls made for one input, only the one that gives
\* the bytes handed out carries ROOT: the chunk in progress, the parents
\* merged onto the stack while absorbing or in finish, and all that lies
\* below the root carry none, and every block of output is the same node
C17_RootOnlyOnOutput ==
    \A i \in 1..Len(hashers) :
        (hashers[i].impl = "Blake3" /\ hashers[i].ok) =>
            /\ WithoutRoot(hashers[i].obj.state)
            /\ \A k \in 1..Len(hashers[i].obj.stack) : WithoutRoot(hashers[i].obj.stack[k])
            /\ hashers[i].obj.bufferOut = ZeroBlock \/ RootOnTop(hashers[i].obj.bufferOut)
            /\ \A x \in OutNodes(hashers[i]) : RootOnTop(x)
            /\ \A x, y \in OutNodes(hashers[i]) : SameNode(x, y)

\* two xof reads that take bytes of two blocks of output, after five chunks
C17_Witness ==
    /\ Len(hashers) = 1
    /\ hashers[1].impl = "Blake3" /\ hashers[1].via = "new" /\ hashers[1].ok
    /\ Len(hashers[1].hist) = 4
    /\ hashers[1].hist[1].n = 4096 /\ hashers[1].hist[2].n = 1
    /\ hashers[1].hist[3].op = "xof" /\ hashers[1].hist[3].n = 64
    /\ hashers[1].hist[4].op = "xof" /\ hashers[1].hist[4].n = 33
    /\ ~hashers[1].hist[4].thrown
    /\ Cardinality(OutNodes(hashers[1])) = 2
    /\ Len(hashers[1].obj.stack) = 1
    /\ HasFlag(hashers[1].obj.bufferOut[6], PARENT)

(***************************************************************************)
(* The height of the CV stack while input is absorbed: by update of a      *)
(* Hasher or a Blake3, and by the stages of blake3 of part_001.            *)
(***************************************************************************)
StackParts == {1, 1024, 3072, 4096}

StackInputs ==
    {x \in Inputs : x.len \in {2048, 4096, 5120, 8192, 9216} /\ x.bufLen = x.len}
    \cup {x \in Inputs : x.len = 4097 /\ x.byteOffset = 1}

NextStack ==
    \/ \E keyLen \in {-1, 32} : NewHasherCall(keyLen, 1)
    \/ \E keyLen \in {-1, 32} : NewBlake3Call(keyLen, 1)
    \/ \E n \in StackParts : HasherUpdateCall(1, n, MaxParts)
    \/ \E n \in StackParts : Blake3UpdateCall(1, n, MaxParts)
    \/ \E input \in StackInputs : CallBlake3(input)

SpecStack == InitCalls /\ [][NextStack]_vars

\* the chunks that are complete and followed by more input, of fed bytes
ChunksBefore(fed) == IF fed = 0 THEN 0 ELSE (fed - 1) \div CHUNK_LEN

\* the compress call k of the log is the first of a chunk, or of a SIMD group
StartsChunk(log, k) ==
    /\ log[k].stage \in {"simd", "full", "tail", "last"}
    /\ log[k].off = CHUNK_LEN * log[k].t
    /\ log[k].stage = "simd" => log[k].t % 4 = 0

\* the chunks closed and pushed before the compress call k
ChunksEnded(log, k) ==
    Cardinality({j \in 1..(k - 1) :
                    log[j].stage \in {"simd", "full"} /\ HasFlag(log[j].d, CHUNK_END)})

\* cvStackPos / 8 before the compress call k: one up a push, one down a merge
StackHeight(log, k) ==
    ChunksEnded(log, k) - Cardinality({j \in 1..(k - 1) : log[j].stage = "merge"})

\* C18: once n whole chunks are absorbed and more input is pending, the CV
\* stack holds popcount(n) chaining values, for every n, for updates of any
\* sizes and for the scalar and the SIMD stage
C18_StackIsPopCount ==
    /\ \A i \in 1..Len(hashers) :
          (hashers[i].ok /\ hashers[i].impl = "Hasher") =>
              /\ hashers[i].obj.chunkCounter = ChunksBefore(Fed(hashers[i].hist, Len(hashers[i].hist)))
              /\ Len(hashers[i].obj.cvStack) = PopCount(hashers[i].obj.chunkCounter)
    /\ \A i \in 1..Len(hashers) :
          (hashers[i].ok /\ hashers[i].impl = "Blake3") =>
              /\ hashers[i].obj.chunksDone = ChunksBefore(Fed(hashers[i].hist, Len(hashers[i].hist)))
              /\ Len(hashers[i].obj.stack) = PopCount(hashers[i].obj.chunksDone)
    /\ \A k \in 1..Len(trace) :
          StartsChunk(trace, k) =>
              /\ ChunksEnded(trace, k) = trace[k].t
              /\ StackHeight(trace, k) = PopCount(trace[k].t)

\* seven chunks on the stack of a Hasher fed 4096 and 4096 bytes, beside a
\* call of blake3 whose SIMD stage took eight chunks of 9216 bytes
C18_Witness ==
    /\ Len(hashers) = 1 /\ hashers[1].impl = "Hasher" /\ hashers[1].ok
    /\ Len(hashers[1].hist) = 2
    /\ hashers[1].obj.chunkCounter = 7 /\ Len(hashers[1].obj.cvStack) = 3
    /\ Len(calls) > 0 /\ wasmSupported /\ LastCall.input.len = 9216 /\ ~LastCall.ret.thrown
    /\ \E k \in 1..Len(trace) :
          StartsChunk(trace, k) /\ trace[k].stage = "tail" /\ trace[k].t = 8
                                /\ StackHeight(trace, k) = 1

\* C19: with SIMD enabled the one-shot hash of vt1.js gives, for every
\* input, what it gives with SIMD disabled: the same leaves and the same
\* parent merges, hence the same digest
C19_SimdEqualsScalar ==
    (wasmSimdEnabled /\ Len(calls) > 0) =>
        LastCall.ret = hash(LastCall.input, LastCall.outputLen, FALSE, cvStack, blockWords)

(***************************************************************************)
(* The array blake3 of part_001 returns is a view of 32 bytes on the       *)
(* buffer of globalWorkBuffer, which every call writes.                    *)
(***************************************************************************)
\* the bytes that new Uint8Array(workBuffer.buffer, CV_OFFSET * 4, 32) shows now
ViewBytes(c) == IF c.ret.thrown THEN <<>> ELSE DigestBytes(globalWorkBuffer.cv)

\* C20: the digest a call of blake3 returned keeps its bytes when blake3 is
\* called again, on another input
C20_ReturnedDigestKeepsValue ==
    \A i \in 1..Len(calls) : ViewBytes(calls[i]) = calls[i].ret.out

(***************************************************************************)
(* Reads of one Hasher that follow each other with no update in between.   *)
(***************************************************************************)
\* the shorter of two reads is the start of the longer
PrefixReads(a, b) ==
    IF a.n <= b.n THEN a.out = SliceBytes(b.out, a.n) ELSE b.out = SliceBytes(a.out, b.n)

\* C21: finalize leaves the Hasher as it was: a second finalize with no update
\* in between returns the same bytes, and finalize(m) is the start of
\* finalize(n) for m <= n, for an input of one chunk or of several
C21_FinalizeRepeatable ==
    \A i \in 1..Len(hashers) :
        (hashers[i].ok /\ hashers[i].impl = "Hasher") =>
            \A k \in 1..(Len(hashers[i].hist) - 1) :
                (/\ hashers[i].hist[k].op = "finalize"
                 /\ hashers[i].hist[k + 1].op = "finalize"
                 /\ ~hashers[i].hist[k].thrown /\ ~hashers[i].hist[k + 1].thrown)
                    => PrefixReads(hashers[i].hist[k], hashers[i].hist[k + 1])

RECURSIVE ChunkBelow(_)
ChunkBelow(x) ==
    \/ ~IsCompress(x)
    \/ /\ ~HasFlag(x[6], PARENT)
       /\ ~HasFlag(x[6], CHUNK_END)
       /\ HasFlag(x[6], CHUNK_START) <=> ~IsCompress(x[2])
       /\ ChunkBelow(x[2])

\* x is a node of the tree: a parent of two nodes, with neither flag, or the
\* last block of a chunk
RECURSIVE FlagsPlaced(_)
FlagsPlaced(x) ==
    \/ ~IsCompress(x)
    \/ IF HasFlag(x[6], PARENT)
       THEN /\ ~HasFlag(x[6], CHUNK_START) /\ ~HasFlag(x[6], CHUNK_END)
            /\ Len(x[3]) = 2
            /\ FlagsPlaced(x[3][1]) /\ FlagsPlaced(x[3][2])
       ELSE /\ HasFlag(x[6], CHUNK_END)
            /\ HasFlag(x[6], CHUNK_START) <=> ~IsCompress(x[2])
            /\ ChunkBelow(x[2])

\* the call k of the instance is its first read: updates alone came before
FirstRead(w, k) ==
    /\ w.hist[k].op # "update" /\ ~w.hist[k].thrown
    /\ \A j \in 1..(k - 1) : w.hist[j].op = "update"

\* C23: CHUNK_START is on the first block of a chunk only and CHUNK_END on
\* its last block only, both on one compress call exactly when the chunk is
\* a single block, however the updates split the bytes
C23_ChunkFlagsPlaced ==
    \A i \in 1..Len(hashers) :
        hashers[i].ok =>
            \A k \in 1..Len(hashers[i].hist) :
                FirstRead(hashers[i], k) =>
                    \A r \in 1..Len(hashers[i].hist[k].out) :
                        FlagsPlaced(hashers[i].hist[k].out[r].w)

\* a chunk of one block closes an input of five chunks fed in two updates
C23_Witness ==
    /\ Len(hashers) = 1 /\ hashers[1].ok /\ hashers[1].via \in {"new", "createKeyedHasher"}
    /\ Len(hashers[1].hist) = 3
    /\ hashers[1].hist[1].n = 4096 /\ hashers[1].hist[2].n = 1
    /\ FirstRead(hashers[1], 3)
    /\ HasFlag(hashers[1].hist[3].out[1].w[6], PARENT)
    /\ HasFlag(hashers[1].hist[3].out[1].w[3][2][6], CHUNK_START)
    /\ HasFlag(hashers[1].hist[3].out[1].w[3][2][6], CHUNK_END)
    /\ ~HasFlag(hashers[1].hist[3].out[1].w[3][1][6], CHUNK_END)

(***************************************************************************)
(* The block a chunk is closed on: for the instances fed by update and for *)
(* blake3 of v0.js.                                                        *)
(***************************************************************************)
EndParts == {1, 64, 1024}

\* the inputs of blake3 of v0.js: a byte, a full chunk, a chunk and a byte,
\* four full chunks
EndInputs == {x \in HashInputs : x.len \in {1, 1024, 1025, 4096}}

NextEnd ==
    \/ NewHasherCall(-1, 1)
    \/ NewBlake3Call(-1, 1)
    \/ \E n \in EndParts : HasherUpdateCall(1, n, MaxParts)
    \/ \E n \in OutLens : HasherFinalizeCall(1, n, 1)
    \/ \E n \in EndParts : Blake3UpdateCall(1, n, MaxParts)
    \/ \E n \in XofLens : XofCall(1, n, 1)
    \/ DigestCall(1, 1)
    \/ \E input \in EndInputs : Blake3V0Call(input)

SpecEnd == InitStream /\ [][NextEnd]_vars

\* the blocks of the chunk that ends in x have 64 bytes each
RECURSIVE FullBelow(_)
FullBelow(x) ==
    \/ ~IsCompress(x)
    \/ x[5] = BLOCK_LEN /\ FullBelow(x[2])

\* every chunk of the tree is closed on a block of 1 to 64 bytes
RECURSIVE EndsOnBytes(_)
EndsOnBytes(x) ==
    \/ ~IsCompress(x)
    \/ IF HasFlag(x[6], PARENT)
       THEN Len(x[3]) = 2 /\ EndsOnBytes(x[3][1]) /\ EndsOnBytes(x[3][2])
       ELSE /\ HasFlag(x[6], CHUNK_END)
            /\ x[5] >= 1 /\ x[5] <= BLOCK_LEN
            /\ FullBelow(x[2])

\* the bytes of the blocks of the chunks of the tree
RECURSIVE TreeBytes(_)
TreeBytes(x) ==
    IF ~IsCompress(x) THEN 0
    ELSE IF HasFlag(x[6], PARENT) THEN TreeBytes(x[3][1]) + TreeBytes(x[3][2])
    ELSE x[5] + TreeBytes(x[2])

\* C24: for an input that is not empty, however it is delivered, the
\* CHUNK_END compress call of a chunk is made on a block that is not empty:
\* a chunk of a multiple of 64 bytes is closed on its last full block with
\* blockLen = 64, and no compress call is made on an empty block after it
C24_ChunkEndsOnBytes ==
    /\ \A i \in 1..Len(hashers) :
          hashers[i].ok =>
              \A k \in 1..Len(hashers[i].hist) :
                  (FirstRead(hashers[i], k) /\ Fed(hashers[i].hist, k) > 0) =>
                      \A r \in 1..Len(hashers[i].hist[k].out) :
                          /\ EndsOnBytes(hashers[i].hist[k].out[r].w)
                          /\ TreeBytes(hashers[i].hist[k].out[r].w) = Fed(hashers[i].hist, k)
    /\ (Len(calls) > 0 /\ LastCall.input.len > 0 /\ Len(trace) > 0) =>
          /\ \A k \in 1..Len(trace) :
                HasFlag(trace[k].d, CHUNK_END) => trace[k].b >= 1 /\ trace[k].b <= BLOCK_LEN
          /\ \A k \in 1..Len(trace) :
                (~HasFlag(trace[k].d, PARENT) /\ ~HasFlag(trace[k].d, CHUNK_END))
                    => trace[k].b = BLOCK_LEN
          /\ Cardinality(WithFlag(trace, CHUNK_END)) = TreeNumChunks(LastCall.input.len)

\* a Hasher fed 64 and 64 bytes closes its chunk on the second full block,
\* and blake3 of v0.js closes the last chunk of 4096 bytes on a full block
C24_Witness ==
    /\ Len(hashers) = 1 /\ hashers[1].ok /\ hashers[1].impl = "Hasher"
    /\ Len(hashers[1].hist) = 3
    /\ hashers[1].hist[1].n = 64 /\ hashers[1].hist[2].n = 64
    /\ FirstRead(hashers[1], 3)
    /\ hashers[1].hist[3].out[1].w[5] = BLOCK_LEN
    /\ HasFlag(hashers[1].hist[3].out[1].w[6], CHUNK_END)
    /\ IsCompress(hashers[1].hist[3].out[1].w[2])
    /\ Len(calls) > 0 /\ LastCall.input.len = 4096
    /\ \E k \in 1..Len(trace) :
          trace[k].stage = "last" /\ trace[k].b = BLOCK_LEN /\ trace[k].t = 3

(***************************************************************************)
(* The parent nodes of the tree behind bytes handed out.                   *)
(***************************************************************************)
\* the lowest and the highest chunk index below the node x
RECURSIVE MinChunk(_)
MinChunk(x) == IF HasFlag(x[6], PARENT) THEN MinChunk(x[3][1]) ELSE x[4]

RECURSIVE MaxChunk(_)
MaxChunk(x) == IF HasFlag(x[6], PARENT) THEN MaxChunk(x[3][2]) ELSE x[4]

\* every parent at or below x is compress(key, older || newer, 0, 64,
\* PARENT | base), the root with ROOT besides and its counter left open
RECURSIVE ParentsOf(_, _, _, _)
ParentsOf(x, key, base, top) ==
    \/ ~IsCompress(x)
    \/ ~HasFlag(x[6], PARENT)
    \/ /\ x[2] = key
       /\ top \/ x[4] = 0
       /\ x[5] = BLOCK_LEN
       /\ x[6] = base + PARENT + (IF top THEN ROOT ELSE 0)
       /\ Len(x[3]) = 2
       /\ IsCompress(x[3][1]) /\ IsCompress(x[3][2])
       /\ MaxChunk(x[3][1]) + 1 = MinChunk(x[3][2])
       /\ ParentsOf(x[3][1], key, base, FALSE)
       /\ ParentsOf(x[3][2], key, base, FALSE)

BaseKey(w) == IF w.keyLen = 32 THEN LittleEndianKey ELSE IV
BaseFlags(w) == IF w.keyLen = 32 THEN KEYED_HASH ELSE 0

\* C25: every parent compress call, made while absorbing or at the end,
\* takes the older chaining value as words 0-7 of the block and the newer as
\* words 8-15, with the base key as chaining value, counter 0, blockLen 64
\* and flags PARENT | base flags
C25_ParentParameters ==
    \A i \in 1..Len(hashers) :
        hashers[i].ok =>
            \A k \in 1..Len(hashers[i].hist) :
                ~hashers[i].hist[k].thrown =>
                    \A r \in 1..Len(hashers[i].hist[k].out) :
                        ParentsOf(hashers[i].hist[k].out[r].w, BaseKey(hashers[i]),
                                  BaseFlags(hashers[i]), TRUE)

(***************************************************************************)
(* The counter argument of the compress calls made while input is          *)
(* absorbed.                                                               *)
(***************************************************************************)
\* x is a chaining value of the chunk with index k: the key, or compress
\* calls with counter k chained from it
RECURSIVE ChainCounter(_, _)
ChainCounter(x, k) ==
    \/ ~IsCompress(x)
    \/ /\ ~HasFlag(x[6], PARENT)
       /\ x[4] = k
       /\ ChainCounter(x[2], k)

\* below x every parent has counter 0 and every chunk its index, the chunks
\* in order
RECURSIVE CountersOf(_)
CountersOf(x) ==
    IF HasFlag(x[6], PARENT)
    THEN /\ x[4] = 0
         /\ Len(x[3]) = 2
         /\ IsCompress(x[3][1]) /\ IsCompress(x[3][2])
         /\ CountersOf(x[3][1]) /\ CountersOf(x[3][2])
         /\ MaxChunk(x[3][1]) + 1 = MinChunk(x[3][2])
    ELSE ChainCounter(x, x[4])

\* the entries j.. of the stack s hold the chunks next..(n - 1)
RECURSIVE StackCounters(_, _, _, _)
StackCounters(s, j, next, n) ==
    IF j > Len(s) THEN next = n
    ELSE /\ IsCompress(s[j])
         /\ CountersOf(s[j])
         /\ MinChunk(s[j]) = next
         /\ StackCounters(s, j + 1, MaxChunk(s[j]) + 1, n)

\* C26: every compress call on a block of the chunk with index k has counter
\* k, lane c of a SIMD group with base counter k has k + c (its block lies
\* c chunks past the block of lane 0), and every parent compress call, the
\* PARENT | ROOT one too, has counter 0
C26_Counters ==
    /\ \A k \in 1..Len(trace) :
        IF HasFlag(trace[k].d, PARENT) THEN trace[k].t = 0
        ELSE trace[k].off >= 0 => trace[k].t = trace[k].off \div CHUNK_LEN
    /\ \A i \in 1..Len(hashers) :
        hashers[i].ok =>
            IF hashers[i].impl = "Hasher"
            THEN /\ ChainCounter(hashers[i].obj.cv, hashers[i].obj.chunkCounter)
                 /\ StackCounters(hashers[i].obj.cvStack, 1, 0, hashers[i].obj.chunkCounter)
            ELSE /\ ChainCounter(hashers[i].obj.state, hashers[i].obj.chunksDone)
                 /\ StackCounters(hashers[i].obj.stack, 1, 0, hashers[i].obj.chunksDone)

\* a Hasher in its eighth chunk after 4096 and 4096 bytes, and a SIMD call
\* of blake3 on 8192 bytes whose second group has the counters 4..7
C26_Witness ==
    /\ Len(hashers) = 1 /\ hashers[1].ok /\ hashers[1].impl = "Hasher"
    /\ hashers[1].obj.chunkCounter = 7
    /\ Len(hashers[1].obj.cvStack) = 3
    /\ IsCompress(hashers[1].obj.cv) /\ hashers[1].obj.cv[4] = 7
    /\ MaxChunk(hashers[1].obj.cvStack[1]) = 3
    /\ \E k \in 1..Len(trace) : trace[k].stage = "simd" /\ trace[k].t = 7
    /\ \E k \in 1..Len(trace) : trace[k].stage = "root" /\ trace[k].t = 0

(***************************************************************************)
(* The blocks of extended output.                                          *)
(***************************************************************************)
\* the arguments of the compress call x other than its counter
RootParams(x) ==
    <<x[2], x[3], x[5], x[6]>> \o (IF Len(x) = 8 THEN <<x[7], x[8]>> ELSE <<>>)

\* the runs j.. continue, from byte p of the output, the words of compress on
\* the arguments of the first run with the counter p \div 64
RECURSIVE XofRuns(_, _, _)
XofRuns(runs, j, p) ==
    \/ j > Len(runs)
    \/ /\ IsCompress(runs[j].w)
       /\ HasFlag(runs[j].w[6], ROOT)
       /\ RootParams(runs[j].w) = RootParams(runs[1].w)
       /\ runs[j].w[4] = p \div BLOCK_LEN
       /\ runs[j].from = p % BLOCK_LEN
       /\ runs[j].from < runs[j].to /\ runs[j].to <= BLOCK_LEN
       /\ XofRuns(runs, j + 1, p + runs[j].to - runs[j].from)

\* the bytes the first k calls on a Blake3 handed out, one after the other
RECURSIVE OutStream(_, _)
OutStream(hist, k) ==
    IF k = 0 THEN <<>>
    ELSE OutStream(hist, k - 1)
            \o (IF hist[k].op # "update" /\ ~hist[k].thrown THEN hist[k].out ELSE <<>>)

\* C27: block k of the extended output, k = 0, 1, 2, .., is the 16 words of
\* compress on the arguments of the root (chaining value, block, blockLen,
\* flags with ROOT), unchanged, with k, the index of the output block, as the
\* counter
C27_OutputBlockCounter ==
    \A i \in 1..Len(hashers) :
        hashers[i].ok =>
            IF hashers[i].impl = "Hasher"
            THEN \A k \in 1..Len(hashers[i].hist) :
                    (hashers[i].hist[k].op # "update" /\ ~hashers[i].hist[k].thrown) =>
                        XofRuns(hashers[i].hist[k].out, 1, 0)
            ELSE XofRuns(OutStream(hashers[i].hist, Len(hashers[i].hist)), 1, 0)

\* a Blake3 fed two chunks that handed out 64 bytes and then 33: the second
\* read is of output block 1
C27_Witness ==
    /\ Len(hashers) = 1 /\ hashers[1].ok /\ hashers[1].impl = "Blake3"
    /\ Fed(hashers[1].hist, Len(hashers[1].hist)) > CHUNK_LEN
    /\ Len(hashers[1].hist) >= 3
    /\ LET h == hashers[1].hist
           n == Len(hashers[1].hist)
       IN /\ h[n - 1].op = "xof" /\ ~h[n - 1].thrown /\ h[n - 1].n = 64
          /\ h[n].op = "xof" /\ ~h[n].thrown /\ h[n].n = 33
          /\ Len(h[n].out) = 1
          /\ h[n].out[1].w[4] = 1
          /\ h[n].out[1].to = 33

(***************************************************************************)
(* The empty input: hash of vt1.js on no bytes, and an instance that got   *)
(* no update, or updates of no bytes, before it is read.                   *)
(***************************************************************************)
EmptyParts == {0, 1}
EmptyInputs == {x \in HashInputs : x.len \in {0, 64}}
EmptyOutputLens == {32, 100}

NextEmpty ==
    \/ InitSimd
    \/ \E keyLen \in {-1, 32} : NewHasherCall(keyLen, 1)
    \/ \E keyLen \in {-1, 32} : NewBlake3Call(keyLen, 1)
    \/ \E n \in EmptyParts : HasherUpdateCall(1, n, MaxParts)
    \/ \E n \in OutLens : HasherFinalizeCall(1, n, MaxReads)
    \/ \E n \in EmptyParts : Blake3UpdateCall(1, n, MaxParts)
    \/ \E n \in XofLens : XofCall(1, n, MaxReads)
    \/ DigestCall(1, MaxReads)
    \/ \E input \in EmptyInputs, outputLen \in EmptyOutputLens : HashCall(input, outputLen)

SpecEmpty == InitStream /\ [][NextEmpty]_vars

\* x is compress(key, sixteen zero words, counter, 0,
\* CHUNK_START | CHUNK_END | ROOT | base), with no compress call behind it
EmptyRoot(x, key, base, counter) ==
    /\ Len(x) = 6
    /\ x[2] = key
    /\ x[3] = ZeroBlock
    /\ x[4] = counter
    /\ x[5] = 0
    /\ x[6] = base + CHUNK_START + CHUNK_END + ROOT

\* the bytes of a read of up to 64 bytes come from one compress call, the
\* one of the empty input; a longer read repeats it per block of output
EmptyRuns(runs, n, key, base) ==
    /\ n <= BLOCK_LEN => Len(runs) = 1
    /\ \A r \in 1..Len(runs) : EmptyRoot(runs[r].w, key, base, r - 1)

\* C28: hashing the empty input is one compress call with the base key as
\* chaining value, a block of zeros, counter 0, blockLen 0 and flags
\* CHUNK_START | CHUNK_END | ROOT | base flags, after no update call and
\* after updates of no bytes alike
C28_EmptyInput ==
    /\ \A i \in 1..Len(hashers) :
        hashers[i].ok =>
            \A k \in 1..Len(hashers[i].hist) :
                (FirstRead(hashers[i], k) /\ Fed(hashers[i].hist, k) = 0) =>
                    EmptyRuns(hashers[i].hist[k].out, hashers[i].hist[k].n,
                              BaseKey(hashers[i]), BaseFlags(hashers[i]))
    /\ \A i \in 1..Len(calls) :
        (calls[i].input.len = 0 /\ ~calls[i].ret.thrown) =>
            EmptyRuns(calls[i].ret.out, IF calls[i].outputLen = 0 THEN 32 ELSE calls[i].outputLen,
                      IV, 0)
    /\ (Len(calls) > 0 /\ LastCall.input.len = 0 /\ ~LastCall.ret.thrown
            /\ LastCall.outputLen <= 32) =>
            trace = << LogEntry("block", 0, 0, 0, CHUNK_START + CHUNK_END + ROOT) >>

\* a keyed Blake3 read after two updates of no bytes, and hash of no bytes
C28_Witness ==
    /\ Len(hashers) = 1 /\ hashers[1].ok /\ hashers[1].impl = "Blake3"
    /\ hashers[1].keyLen = 32
    /\ Len(hashers[1].hist) = 3
    /\ hashers[1].hist[1].op = "update" /\ hashers[1].hist[1].n = 0
    /\ hashers[1].hist[2].op = "update" /\ hashers[1].hist[2].n = 0
    /\ FirstRead(hashers[1], 3)
    /\ Len(hashers[1].hist[3].out) = 1
    /\ hashers[1].hist[3].out[1].w[6] = KEYED_HASH + CHUNK_START + CHUNK_END + ROOT
    /\ Len(calls) > 0 /\ LastCall.input.len = 0 /\ LastCall.outputLen = 32
    /\ Len(LastCall.ret.out) = 1

(***************************************************************************)
(* The bounds of the CV stack of blake3 of part_001 and of hash of vt1.js. *)
(***************************************************************************)
\* 32 - Math.clz32(n)
RECURSIVE BitLength(_)
BitLength(n) == IF n = 0 THEN 0 ELSE 1 + BitLength(n \div 2)

\* getCvStack(inputLength) of part_001: depth = Math.max(maxDepth, 54), the
\* chaining values the stack it hands out has room for
getCvStackDepth(inputLength) ==
    LET numChunks == IF inputLength = 0 THEN 1
                     ELSE (inputLength + CHUNK_LEN - 1) \div CHUNK_LEN
        maxDepth == BitLength(numChunks) + 1
    IN IF maxDepth > 54 THEN maxDepth ELSE 54

CvInputs == {x \in HashInputs : x.len \in {1, 1024, 1025, 4096, 4097, 8192}}

NextCv ==
    \/ InitSimd
    \/ \E input \in StackInputs : CallBlake3(input)
    \/ \E input \in CvInputs : HashCall(input, 32)

SpecCv == InitCalls /\ [][NextCv]_vars

\* call c is one of hash of vt1.js
IsHashCall(c) == "outputLen" \in DOMAIN c

\* the room of globalCvStack after the first k calls: it only grows
RECURSIVE GlobalCvRoom(_)
GlobalCvRoom(k) ==
    IF k = 0 THEN 0
    ELSE IF IsHashCall(calls[k]) THEN GlobalCvRoom(k - 1)
    ELSE IF GlobalCvRoom(k - 1) < getCvStackDepth(calls[k].input.len)
         THEN getCvStackDepth(calls[k].input.len)
         ELSE GlobalCvRoom(k - 1)

\* every parent at or below x was compressed from two chaining values
RECURSIVE MergedTwo(_)
MergedTwo(x) ==
    \/ ~IsCompress(x)
    \/ IF HasFlag(x[6], PARENT)
       THEN /\ Len(x[3]) = 2
            /\ IsCompress(x[3][1]) /\ IsCompress(x[3][2])
            /\ MergedTwo(x[3][1]) /\ MergedTwo(x[3][2])
       ELSE MergedTwo(x[2])

\* C29: for every input length the CV stack stays within its bounds: it
\* never holds more chaining values than it has room for (54 are enough),
\* and no parent merge is made with fewer than two chaining values on it
C29_StackInBounds ==
    /\ Len(globalCvStack) <= GlobalCvRoom(Len(calls))
    /\ Len(globalCvStack) <= 54
    /\ Len(cvStack.s) <= cvStack.len
    /\ \A i \in 1..Len(calls) :
        (IsHashCall(calls[i]) /\ calls[i].ret.thrown) =>
            calls[i].input.len >= 4 * CHUNK_LEN /\ SimdViewThrows(calls[i].input, 0)
    /\ \A i \in 1..Len(calls) :
        \A r \in 1..Len(calls[i].ret.out) : MergedTwo(calls[i].ret.out[r].w)

\* blake3 of 9216 bytes on the SIMD path and then hash of 8192 bytes on the
\* SIMD path: stacks of 54 and of 6 places, both with merges behind them
C29_Witness ==
    /\ Len(calls) = 2
    /\ ~IsHashCall(calls[1]) /\ calls[1].input.len = 9216 /\ ~calls[1].ret.thrown
    /\ wasmSupported /\ wasmSimdEnabled
    /\ IsHashCall(calls[2]) /\ calls[2].input.len = 8192 /\ ~calls[2].ret.thrown
    /\ Len(globalCvStack) >= 2 /\ GlobalCvRoom(2) = 54
    /\ cvStack.len = 6 /\ Len(cvStack.s) >= 2
    /\ HasFlag(calls[2].ret.out[1].w[6], PARENT)
    /\ \E k \in 1..Len(trace) : trace[k].stage = "simd"

(***************************************************************************)
(* A Blake3 after digest() or digestInto(out) has returned.                *)
(***************************************************************************)
MaxAfterReads == 3
AfterParts == {1, 1024}
AfterLens == {32, 64}

\* h.xofInto(out) for an out of n bytes
XofIntoCall(i, n, maxReads) ==
    /\ CanCall(i, "Blake3", FALSE, maxReads)
    /\ hashers' = [hashers EXCEPT ![i] = Read(@, xofInto(@.obj, B3_IV, n), "xofInto", n)]
    /\ UNCHANGED <<Rest, B3_IV, wasmSimdEnabled>>

NextAfter ==
    \/ \E dkLen \in {32, 64} : NewBlake3LenCall(dkLen, 1)
    \/ \E n \in AfterParts : Blake3UpdateCall(1, n, MaxParts)
    \/ \E n \in AfterLens : XofCall(1, n, MaxAfterReads)
    \/ \E n \in AfterLens : XofIntoCall(1, n, MaxAfterReads)
    \/ \E n \in AfterLens : DigestIntoCall(1, n, MaxAfterReads)
    \/ DigestCall(1, MaxAfterReads)

SpecAfter == InitStream /\ [][NextAfter]_vars

\* the call k of w is a digest() or a digestInto(out) that returned
DigestReturned(w, k) == w.hist[k].op \in {"digest", "digestInto"} /\ ~w.hist[k].thrown

\* C30: once digest() or digestInto(out) has returned on a Blake3, every
\* later update, digest, digestInto, xof and xofInto on it throws
C30_NoUseAfterDigest ==
    \A i \in 1..Len(hashers) :
        (hashers[i].ok /\ hashers[i].impl = "Blake3") =>
            \A k \in 1..Len(hashers[i].hist) :
                DigestReturned(hashers[i], k) =>
                    \A j \in (k + 1)..Len(hashers[i].hist) : hashers[i].hist[j].thrown

\* digestInto(out) returned, then an update, an xofInto and a digest threw
C30_Witness ==
    /\ Len(hashers) = 1 /\ hashers[1].ok /\ hashers[1].impl = "Blake3"
    /\ \E k \in 1..Len(hashers[1].hist) :
        /\ hashers[1].hist[k].op = "digestInto" /\ ~hashers[1].hist[k].thrown
        /\ Len(hashers[1].hist[k].out) > 0
        /\ Len(hashers[1].hist) = k + 3
        /\ {hashers[1].hist[j].op : j \in (k + 1)..(k + 3)} = {"update", "xofInto", "digest"}
        /\ \A j \in (k + 1)..(k + 3) : hashers[1].hist[j].thrown

====
